---- MODULE Spec2Model ----
(***************************************************************************)
(* Model of the DICOM task scheduler ctkDICOMTaskPool, the tasks it runs   *)
(* (ctkDICOMQueryTask, ctkDICOMRetrieveTask, ctkAbstractTask), the query   *)
(* driver ctkDICOMQuery and the thread pool and event loop they run on.    *)
(*                                                                         *)
(* Threads: one coordinating thread (the Qt event loop, which runs the     *)
(* public operations and the slots taskStarted / taskFinished /            *)
(* taskCanceled / taskRetry) and the worker threads of the QThreadPool,    *)
(* each executing one task's run() at a time.  Signals of a task are       *)
(* delivered to the scheduler through queued connections: an emission      *)
(* appends an event to `events`, the coordinating thread handles the head. *)
(***************************************************************************)
EXTENDS Integers, Sequences, FiniteSets, TLC

\* ------------------------------------------------------------------ bounds
MaxTasks == 3          \* task objects ever allocated
MaxCalls == 1          \* query / retrieve operations called by the user
MaxServers == 1        \* server objects ever handed to addServer
MaxThreadCount == 1    \* QThreadPool::maxThreadCount
MaxResponses == 1      \* non-empty responses / received instances per exchange

\* d->MaximumNumberOfRetry as configured with setMaximumNumberOfRetry (the
\* constructor sets 3)
MaximumNumberOfRetry == 1

TaskIds == 1..MaxTasks

\* ------------------------------------------------------------------ servers
\* The server objects a caller may hand to addServer.  retrieveProtocol,
\* proxyServer and queryRetrieveEnabled are read by the scheduler through the
\* ctkDICOMServer accessors.
ServerObjects ==
  [ GET   |-> [connectionName |-> "GET",   retrieveProtocol |-> "CGET",
               proxyServer |-> "",      queryRetrieveEnabled |-> TRUE],
    MOVE  |-> [connectionName |-> "MOVE",  retrieveProtocol |-> "CMOVE",
               proxyServer |-> "",      queryRetrieveEnabled |-> TRUE],
    MOVEP |-> [connectionName |-> "MOVEP", retrieveProtocol |-> "CMOVE",
               proxyServer |-> "PROXY", queryRetrieveEnabled |-> TRUE],
    MOVEO |-> [connectionName |-> "MOVEO", retrieveProtocol |-> "CMOVE",
               proxyServer |-> "OFF",   queryRetrieveEnabled |-> TRUE],
    PROXY |-> [connectionName |-> "PROXY", retrieveProtocol |-> "CGET",
               proxyServer |-> "",      queryRetrieveEnabled |-> TRUE],
    OFF   |-> [connectionName |-> "OFF",   retrieveProtocol |-> "CGET",
               proxyServer |-> "",      queryRetrieveEnabled |-> FALSE],
    \* a C-MOVE server whose proxy is itself a C-MOVE server with a proxy
    MOVE2 |-> [connectionName |-> "MOVE2", retrieveProtocol |-> "CMOVE",
               proxyServer |-> "MOVEP", queryRetrieveEnabled |-> TRUE],
    \* a second server object configured with the connection name of GET
    GET2  |-> [connectionName |-> "GET",   retrieveProtocol |-> "CGET",
               proxyServer |-> "",      queryRetrieveEnabled |-> TRUE] ]

\* Servers that addServer is called with (PROXY and OFF are reached as the
\* proxies of MOVEP and MOVEO).
AddableServers == {"GET", "MOVE", "MOVEP", "MOVEO"}

Priorities == {"Low", "Normal", "High"}
Rank(p) == CASE p = "Low" -> 1 [] p = "Normal" -> 2 [] p = "High" -> 3

FilterValues == {"F0", "F1"}

VARIABLES
  Servers,    \* d->Servers : sequence of server objects
  erased,     \* server objects destroyed by erase / clear of d->Servers
  Tasks,      \* d->Tasks   : the registry, a map taskUID -> task object
  Filters,    \* d->Filters
  task,       \* the task objects: fields of ctkAbstractTask and its subclasses
  queue,      \* QThreadPool: runnables queued, highest priority first
  events,     \* queued signal emissions not yet handled by the event loop
  timers,     \* pending QTimer::singleShot(RetryDelay, ...) : tasks to retry
  coord,      \* position of the coordinating thread
  nextUID,    \* number of UIDs generateUniqueTaskUID has produced
  calls,      \* number of query / retrieve operations called so far
  node,       \* ctkDICOMTaskResults* : <<>> is nullptr, <<r>> points to object r
  copy,       \* the ctkDICOMTaskResults object deepCopy is called on, same coding
  Query,      \* a ctkDICOMQuery object (the query driver) and its caller's view
  SeriesItem, \* a ctkDICOMSeriesItemWidget, the database rows of its series
  Request     \* ctkDICOMQuery: d->Filters and the C-FIND request dataset d->Query

vars == <<Servers, erased, Tasks, Filters, task, queue, events, timers, coord,
          nextUID, calls, node, copy, Query, SeriesItem, Request>>

\* No series item widget, no C-FIND request is looked at.
NoSeriesItem == <<>>
NoRequest == <<>>

\* ------------------------------------------------------------- task objects
\* A task object that has not been allocated yet.
NoneTask ==
  [ kind |-> "none", level |-> "", server |-> "", patientID |-> "",
    studyInstanceUID |-> "", seriesInstanceUID |-> "", sopInstanceUID |-> "",
    filters |-> "", NumberOfRetry |-> 0, TaskUID |-> 0,
    Stop |-> FALSE, Running |-> FALSE, Finished |-> FALSE, Canceled |-> FALSE,
    results |-> 0, responses |-> 0,
    pc |-> "none", connected |-> FALSE, deleted |-> FALSE,
    \* history: signals emitted, origin, what the scheduler did with it
    emitted |-> <<>>, origin |-> "", parent |-> 0,
    stoppedAt |-> "", handled |-> "", nullProgress |-> 0,
    indexed |-> FALSE, notified |-> FALSE,
    \* history: the result objects the Indexer was handed
    received |-> {},
    \* history: where stopAllTasks found it, if not yet in run(), and where
    \* a stopTasks call with its UIDs found it, if not finished nor stopped
    stopAllAt |-> "", stopTasksAt |-> "",
    \* history: the priority taskFinished started it with, if it is chained
    chainPriority |-> "",
    \* history: how often the last re-prioritisation took it from the queue
    takes |-> 0,
    \* history: the responses with a dataset the C-FIND of run() returned
    nonEmpty |-> 0 ]

\* ctkAbstractTask::ctkAbstractTask, ctkDICOMQueryTaskPrivate constructor
NewQueryTask ==
  [ NoneTask EXCEPT !.kind = "query", !.level = "Studies", !.pc = "created" ]

\* ctkAbstractTask::ctkAbstractTask, ctkDICOMRetrieveTaskPrivate constructor
NewRetrieveTask ==
  [ NoneTask EXCEPT !.kind = "retrieve", !.level = "Studies", !.pc = "created" ]

Allocated(tk) == {t \in TaskIds : tk[t].kind # "none"}
FreeTasks(tk) == MaxTasks - Cardinality(Allocated(tk))
NextTask(tk) == Cardinality(Allocated(tk)) + 1

\* --------------------------------------------------------------- QThreadPool
\* Positions of a task at which a worker thread holds it.
ActivePCs == {"assigned", "entered", "drv_find", "drv_resp", "ret_true",
              "ret_false", "returned"}

\* Positions inside run().
RunPCs == ActivePCs \ {"assigned", "returned"}

activeThreadCount(tk) == Cardinality({t \in TaskIds : tk[t].pc \in ActivePCs})

\* QThreadPool::enqueueTask: after the queued runnables of priority >= prio
RECURSIVE Enqueue(_, _, _)
Enqueue(q, t, prio) ==
  IF q = <<>> THEN << [t |-> t, priority |-> prio] >>
  ELSE IF Rank(Head(q).priority) >= Rank(prio)
       THEN <<Head(q)>> \o Enqueue(Tail(q), t, prio)
       ELSE << [t |-> t, priority |-> prio] >> \o q

Queued(q) == {q[i].t : i \in 1..Len(q)}

\* QThreadPool::start(runnable, priority) on the scheduler state st
start(st, t, prio) ==
  IF activeThreadCount(st.task) < MaxThreadCount
  THEN [st EXCEPT !.task[t].pc = "assigned"]
  ELSE [st EXCEPT !.task[t].pc = "queued",
                  !.queue = Enqueue(st.queue, t, prio)]

\* QThreadPool::clear : the queued runnables are dropped and never run
clear(st) ==
  [st EXCEPT !.queue = <<>>,
             !.task = [t \in TaskIds |->
                        IF t \in Queued(st.queue)
                        THEN [st.task[t] EXCEPT !.pc = "dropped"]
                        ELSE st.task[t]]]

PoolIdle == queue = <<>> /\ activeThreadCount(task) = 0

\* ----------------------------------------------------------------- scheduler
\* The part of the state the scheduler's operations work on.
State == [task |-> task, queue |-> queue, Tasks |-> Tasks, nextUID |-> nextUID]

Commit(st) ==
  /\ task' = st.task
  /\ queue' = st.queue
  /\ Tasks' = st.Tasks
  /\ nextUID' = st.nextUID

\* ctkDICOMTaskPoolPrivate::generateUniqueTaskUID : a UUID not seen before
generateUniqueTaskUID(st) == st.nextUID + 1

\* d->Tasks.insert(taskUID, task) : QMap::insert replaces the value of a key
insert(reg, uid, t) ==
  [k \in DOMAIN reg \cup {uid} |-> IF k = uid THEN t ELSE reg[k]]

\* d->Tasks.remove(taskUID)
remove(reg, uid) == [k \in DOMAIN reg \ {uid} |-> reg[k]]

\* The body of the foreach loop of queryPatients ... retrieveSOPInstance for
\* one enabled server: create the task, connect it, register it under a new
\* UID and start it.
scheduleTask(st, proto, srv, prio) ==
  LET t   == NextTask(st.task)
      uid == generateUniqueTaskUID(st)
      st1 == [st EXCEPT
               !.task[t] = [proto EXCEPT !.server = srv, !.TaskUID = uid,
                                         !.connected = TRUE, !.origin = "call"],
               !.Tasks = insert(st.Tasks, uid, t),
               !.nextUID = uid]
  IN start(st1, t, prio)

\* A foreach loop that does not test queryRetrieveEnabled.
RECURSIVE scheduleOnServers_ignoringEnabled(_, _, _, _)
scheduleOnServers_ignoringEnabled(st, proto, prio, i) ==
  IF i > Len(Servers) THEN st
  ELSE scheduleOnServers_ignoringEnabled(
         scheduleTask(st, proto, Servers[i], prio), proto, prio, i + 1)

\* foreach(server, d->Servers) { if (!server->queryRetrieveEnabled()) continue; ... }
RECURSIVE scheduleOnServers(_, _, _, _)
scheduleOnServers(st, proto, prio, i) ==
  IF i > Len(Servers) THEN st
  ELSE IF ~ServerObjects[Servers[i]].queryRetrieveEnabled
       THEN scheduleOnServers(st, proto, prio, i + 1)
       ELSE scheduleOnServers(scheduleTask(st, proto, Servers[i], prio),
                              proto, prio, i + 1)

getNumberOfQueryRetrieveServers ==
  Cardinality({i \in 1..Len(Servers) :
                 ServerObjects[Servers[i]].queryRetrieveEnabled})

\* A query / retrieve operation called from the event loop.
Call(proto, prio) ==
  /\ coord.pc = "loop"
  /\ calls < MaxCalls
  /\ FreeTasks(task) >= getNumberOfQueryRetrieveServers
  /\ calls' = calls + 1
  /\ Commit(scheduleOnServers(State, proto, prio, 1))
  /\ UNCHANGED <<SeriesItem, Request, node, copy, Query, Servers, erased, Filters, events, timers, coord>>

PatientIDs == {"P1"}
StudyUIDs == {"ST1"}
SeriesUIDs == {"SE1"}
SOPUIDs == {"I1"}

queryPatients ==
  \E prio \in Priorities :
    Call([NewQueryTask EXCEPT !.filters = Filters, !.level = "Patients"], prio)

queryStudies ==
  \E prio \in Priorities, p \in PatientIDs :
    Call([NewQueryTask EXCEPT !.filters = Filters, !.level = "Studies",
                              !.patientID = p], prio)

querySeries ==
  \E prio \in Priorities, p \in PatientIDs, st \in StudyUIDs :
    Call([NewQueryTask EXCEPT !.filters = Filters, !.level = "Series",
                              !.patientID = p, !.studyInstanceUID = st], prio)

queryInstances ==
  \E prio \in Priorities, p \in PatientIDs, st \in StudyUIDs, se \in SeriesUIDs :
    Call([NewQueryTask EXCEPT !.filters = Filters, !.level = "Instances",
                              !.patientID = p, !.studyInstanceUID = st,
                              !.seriesInstanceUID = se], prio)

retrieveStudy ==
  \E prio \in Priorities, st \in StudyUIDs :
    Call([NewRetrieveTask EXCEPT !.level = "Studies",
                                 !.studyInstanceUID = st], prio)

retrieveSeries ==
  \E prio \in Priorities, st \in StudyUIDs, se \in SeriesUIDs :
    Call([NewRetrieveTask EXCEPT !.level = "Series", !.studyInstanceUID = st,
                                 !.seriesInstanceUID = se], prio)

retrieveSOPInstance ==
  \E prio \in Priorities, st \in StudyUIDs, se \in SeriesUIDs, sop \in SOPUIDs :
    Call([NewRetrieveTask EXCEPT !.level = "Instances", !.studyInstanceUID = st,
                                 !.seriesInstanceUID = se,
                                 !.sopInstanceUID = sop], prio)

\* ctkDICOMTaskPool::setFilters
setFilters ==
  /\ coord.pc = "loop"
  /\ \E f \in FilterValues : f # Filters /\ Filters' = f
  /\ UNCHANGED <<SeriesItem, Request, node, copy, Query, Servers, erased, Tasks, task, queue, events, timers, coord,
                 nextUID, calls>>

\* -------------------------------------------------------------------- tasks
\* ctkAbstractTask::setIsFinished
setIsFinished(r, finished) ==
  [r EXCEPT !.Running = IF finished /\ r.Running THEN FALSE ELSE r.Running,
            !.Finished = finished]

\* ctkAbstractTask::setIsRunning
setIsRunning(r, running) == [r EXCEPT !.Running = running]

\* ctkDICOMQuery::cancel
cancel(r) == [r EXCEPT !.Canceled = TRUE]

\* A setStop that leaves the task as it is.
setStop_ignored(r, stop) == r

\* ctkDICOMQueryTask::setStop, ctkDICOMRetrieveTask::setStop
setStop(r, stop) ==
  [cancel(r) EXCEPT !.Stop = stop,
                    \* history: where in run() the first setStop(true) found it
                    !.stoppedAt = IF stop /\ r.pc \in RunPCs /\ r.stoppedAt = ""
                                  THEN r.pc ELSE r.stoppedAt]

\* emit started() / finished() / canceled() : the emissions are recorded, and
\* posted to the event loop when the signal is connected to the scheduler
emit(r, ss) == [r EXCEPT !.emitted = @ \o ss]

post(ev, r, t, ss) ==
  IF r.connected
  THEN ev \o [i \in 1..Len(ss) |-> [sig |-> ss[i], t |-> t]]
  ELSE ev

\* The signals run() emits when it finds Stop set at entry.
SignalsAtStoppedEntry == <<"canceled">>

\* A run() that emits nothing when the driver returns false.
SignalsAfterDriver_silentFailure(ok) == IF ok THEN <<"finished">> ELSE <<>>
\* The signals run() emits after the driver returned ok.
SignalsAfterDriver(ok) == IF ok THEN <<"finished">> ELSE <<"canceled">>

\* run(), entry: if (this->isStopped()) { setIsFinished(true); emit canceled(); return; }
\* (ctkDICOMRetrieveTask also tests !d->Server; setServer is always called)
RunEntry(t) ==
  /\ task[t].pc = "assigned"
  /\ IF task[t].Stop
     THEN /\ task' = [task EXCEPT ![t] =
                [emit(setIsFinished(task[t], TRUE), SignalsAtStoppedEntry)
                   EXCEPT !.pc = "returned"]]
          /\ events' = post(events, task[t], t, SignalsAtStoppedEntry)
     ELSE /\ task' = [task EXCEPT ![t].pc = "entered"]
          /\ events' = events
  /\ UNCHANGED <<SeriesItem, Request, node, copy, Query, Servers, erased, Tasks, Filters, queue, timers, coord,
                 nextUID, calls>>

\* run(): setIsRunning(true); emit started();
\* (the slot ctkDICOMTaskPool::taskStarted only logs: its event is not kept)
RunStart(t) ==
  /\ task[t].pc = "entered"
  /\ task' = [task EXCEPT ![t] =
        [emit(setIsRunning(task[t], TRUE), <<"started">>) EXCEPT !.pc = "drv_find"]]
  /\ UNCHANGED <<SeriesItem, Request, node, copy, Query, Servers, erased, Tasks, Filters, queue, events, timers, coord,
                 nextUID, calls>>

\* A driver that never looks at d->Canceled.
Polled_never(r) == FALSE
\* The driver polls d->Canceled before each primitive and returns false when
\* it is set.
Polled(r) == r.Canceled

\* ctkDICOMQuery::queryInstances is the driver function of the task: it
\* appends its one result object whatever the C-FIND returned
BatchesResults(r) == r.kind = "query" /\ r.level = "Instances"

\* ctkDICOMQuery::queryStudies up to the responses: Canceled polled, then
\* initializeSCU (initNetwork, negotiateAssociation) and sendFINDRequest, each of
\* which may fail; n non-empty responses are received. queryInstances puts
\* their datasets into the datasetsMap of one result object and appends it.
DrvFind(t) ==
  /\ task[t].pc = "drv_find"
  /\ \E ok \in BOOLEAN, n \in 0..MaxResponses :
       task' = [task EXCEPT ![t] =
         IF Polled(task[t]) \/ ~ok
         THEN [task[t] EXCEPT !.pc = "ret_false"]
         ELSE IF BatchesResults(task[t])
         THEN [task[t] EXCEPT !.pc = "drv_resp", !.results = 1,
                              !.responses = 0, !.nonEmpty = n]
         ELSE [task[t] EXCEPT !.pc = "drv_resp", !.results = 0,
                              !.responses = n, !.nonEmpty = n]]
  /\ UNCHANGED <<SeriesItem, Request, node, copy, Query, Servers, erased, Tasks, Filters, queue, events, timers, coord,
                 nextUID, calls>>

\* ctkDICOMQuery::queryStudies : the loop over the responses, one TaskResults
\* appended per non-empty response, Canceled polled before and after each
DrvResp(t) ==
  /\ task[t].pc = "drv_resp"
  /\ task' = [task EXCEPT ![t] =
       IF Polled(task[t]) THEN [task[t] EXCEPT !.pc = "ret_false"]
       ELSE IF task[t].responses > 0
            THEN [task[t] EXCEPT !.responses = @ - 1, !.results = @ + 1]
            ELSE [task[t] EXCEPT !.pc = "ret_true"]]
  /\ UNCHANGED <<SeriesItem, Request, node, copy, Query, Servers, erased, Tasks, Filters, queue, events, timers, coord,
                 nextUID, calls>>

\* run(), after the driver returned: setIsFinished(true); emit ...; return
RunTerminal(t) ==
  /\ task[t].pc \in {"ret_true", "ret_false"}
  /\ LET s == SignalsAfterDriver(task[t].pc = "ret_true")
     IN /\ task' = [task EXCEPT ![t] =
              [emit(setIsFinished(task[t], TRUE), s) EXCEPT !.pc = "returned"]]
        /\ events' = post(events, task[t], t, s)
  /\ UNCHANGED <<SeriesItem, Request, node, copy, Query, Servers, erased, Tasks, Filters, queue, timers, coord,
                 nextUID, calls>>

\* QThreadPoolThread::run after runnable->run() returned: take the next queued
\* runnable, or leave the set of active threads
WorkerNext(t) ==
  /\ task[t].pc = "returned"
  /\ IF queue = <<>>
     THEN /\ task' = [task EXCEPT ![t].pc = "done"]
          /\ queue' = queue
     ELSE /\ task' = [task EXCEPT ![t].pc = "done",
                                  ![Head(queue).t].pc = "assigned"]
          /\ queue' = Tail(queue)
  /\ UNCHANGED <<SeriesItem, Request, node, copy, Query, Servers, erased, Tasks, Filters, events, timers, coord,
                 nextUID, calls>>

Worker ==
  \E t \in TaskIds :
    \/ RunEntry(t) \/ RunStart(t) \/ DrvFind(t) \/ DrvResp(t) \/ RunTerminal(t) \/ WorkerNext(t)

\* ------------------------------------------------- stop, delete, wait, servers
\* ctkDICOMTaskPool::deleteTask : disconnect, remove from the registry,
\* deleteLater
deleteTask(st, uid) ==
  IF uid \notin DOMAIN st.Tasks THEN st
  ELSE LET t == st.Tasks[uid]
       IN [st EXCEPT !.task[t].connected = FALSE, !.task[t].deleted = TRUE,
                     !.Tasks = remove(st.Tasks, uid)]

Range(f) == {f[k] : k \in DOMAIN f}

\* ctkDICOMTaskPool::deleteAllTasks : foreach task of d->Tasks,
\* deleteTask(task->taskUID())
RECURSIVE deleteEach(_, _)
deleteEach(st, ts) ==
  IF ts = {} THEN st
  ELSE LET t == CHOOSE x \in ts : TRUE
       IN deleteEach(deleteTask(st, st.task[t].TaskUID), ts \ {t})

deleteAllTasks(st) == deleteEach(st, Range(st.Tasks))

\* ctkDICOMTaskPool::stopAllTasks : clear the queue, then setStop(true) on every
\* registered task (the tryTake that follows finds the queue empty)
stopAllTasks(st) ==
  LET c == clear(st)
  IN [c EXCEPT !.task = [t \in TaskIds |->
                           IF t \in Range(c.Tasks)
                           THEN [setStop(c.task[t], TRUE) EXCEPT
                                   !.stopAllAt =
                                     IF st.task[t].pc \in {"queued", "assigned"}
                                        /\ @ = ""
                                     THEN st.task[t].pc ELSE @]
                           ELSE c.task[t]]]

\* d->Servers.erase(d->Servers.begin() + id)
SeqWithoutNth(q, n) == SubSeq(q, 1, n - 1) \o SubSeq(q, n + 1, Len(q))

\* The coordinating thread is in the event loop.
Idle == [pc |-> "loop", then |-> <<>>, destroys |-> {}]

\* ctkDICOMTaskPool::waitForFinish(-1), entry: waitForDone(-1) is called only
\* when activeThreadCount() is not 0; then processEvents()
waitForFinishEntry(st) ==
  IF activeThreadCount(st.task) # 0 THEN "waitForDone" ELSE "processEvents"

\* The user calls stopAllTasks().
StopAllTasks ==
  /\ coord.pc = "loop"
  /\ Range(Tasks) # {}
  /\ Commit(stopAllTasks(State))
  /\ UNCHANGED <<SeriesItem, Request, node, copy, Query, Servers, erased, Filters, events, timers, coord, calls>>

\* The UIDs of a task against those of a stopTasks call: the same study, and
\* the same series and SOP instance where both sides name one.
MatchesTriple(r, study, series, sop) ==
  /\ r.studyInstanceUID = study
  /\ (r.seriesInstanceUID = series \/ r.seriesInstanceUID = "" \/ series = "")
  /\ (r.sopInstanceUID = sop \/ r.sopInstanceUID = "" \/ sop = "")

\* ctkDICOMTaskPool::stopTasks, the test under which a registered task is
\* skipped: a retrieve task on isFinished, another study, another series or
\* another SOP instance; a query task on isFinished, another study or
\* another series (an empty UID on either side never differs).
stopTasksSkips_running(r, study, series, sop) ==
  \/ r.Running
  \/ r.Finished
  \/ r.studyInstanceUID # study
  \/ (r.seriesInstanceUID # "" /\ series # "" /\ r.seriesInstanceUID # series)
  \/ (r.kind = "retrieve" /\ r.sopInstanceUID # "" /\ sop # ""
        /\ r.sopInstanceUID # sop)

stopTasksSkips(r, study, series, sop) ==
  IF r.kind = "retrieve"
  THEN \/ r.Finished
       \/ r.studyInstanceUID # study
       \/ (r.seriesInstanceUID # "" /\ series # ""
             /\ r.seriesInstanceUID # series)
       \/ (r.sopInstanceUID # "" /\ sop # "" /\ r.sopInstanceUID # sop)
  ELSE \/ r.Finished
       \/ r.studyInstanceUID # study
       \/ (r.seriesInstanceUID # "" /\ series # ""
             /\ r.seriesInstanceUID # series)

\* ctkDICOMTaskPool::stopTasks : setStop(true) on every registered task that
\* is not skipped; the pool queue is not touched
stopTasks(st, study, series, sop) ==
  [st EXCEPT !.task = [t \in TaskIds |->
     IF t \notin Range(st.Tasks) THEN st.task[t]
     ELSE LET r == [st.task[t] EXCEPT
                      !.stopTasksAt =
                        IF /\ @ = "" /\ ~st.task[t].Finished /\ ~st.task[t].Stop
                           /\ MatchesTriple(st.task[t], study, series, sop)
                        THEN st.task[t].pc ELSE @]
          IN IF stopTasksSkips(r, study, series, sop) THEN r
             ELSE setStop(r, TRUE)]]

\* The UIDs stopTasks is called with: the study, series and instance of the
\* scheduled operations, other ones, and none.
StopTriples ==
  { <<"ST1", "", "">>, <<"ST1", "SE1", "">>, <<"ST1", "SE1", "I1">>,
    <<"ST1", "SE2", "">>, <<"ST1", "", "I2">>, <<"ST2", "", "">> }

\* The user calls stopTasks(studyInstanceUID, seriesInstanceUID, sopInstanceUID).
StopTasks(study, series, sop) ==
  /\ coord.pc = "loop"
  /\ Range(Tasks) # {}
  /\ Commit(stopTasks(State, study, series, sop))
  /\ UNCHANGED <<SeriesItem, Request, node, copy, Query, Servers, erased, Filters, events, timers, coord, calls>>

StopTasks_ops == \E a \in StopTriples : StopTasks(a[1], a[2], a[3])

\* ------------------------------------------------------- re-prioritisation
\* The queue without its first entry for t.
RECURSIVE WithoutFirst(_, _)
WithoutFirst(q, t) ==
  IF q = <<>> THEN <<>>
  ELSE IF Head(q).t = t THEN Tail(q)
       ELSE <<Head(q)>> \o WithoutFirst(Tail(q), t)

\* A tryTake that reports success and leaves the runnable queued.
tryTake_leaving(st, t) == [st EXCEPT !.task[t].takes = @ + 1]

\* QThreadPool::tryTake(runnable), when it returns true: the runnable is
\* removed from the queue
tryTake(st, t) ==
  [st EXCEPT !.queue = WithoutFirst(@, t), !.task[t].takes = @ + 1]

\* A start of the runnable whether tryTake found it queued or not.
takeAndStart_unconditional(st, t, prio) == start(tryTake(st, t), t, prio)

\* if (d->ThreadPool->tryTake(task)) { d->ThreadPool->start(task, priority); }
\* tryTake returns false for a runnable that is not queued
takeAndStart(st, t, prio) ==
  IF t \in Queued(st.queue) THEN start(tryTake(st, t), t, prio) ELSE st

\* The priority a queued task is queued with.
QueuePriority(q, t) == q[CHOOSE i \in 1..Len(q) : q[i].t = t].priority

\* The re-prioritisation starts: no task has been taken yet.
resetTakes(st) ==
  [st EXCEPT !.task = [t \in TaskIds |-> [st.task[t] EXCEPT !.takes = 0]]]

\* The first key of d->Tasks among uids (foreach walks a QMap in key order).
FirstKey(uids) == CHOOSE u \in uids : \A v \in uids : u <= v

\* ctkDICOMTaskPool::lowerPriorityToAllTasks over the keys uids
RECURSIVE lowerPriorityToAllTasks(_, _)
lowerPriorityToAllTasks(st, uids) ==
  IF uids = {} THEN st
  ELSE LET u == FirstKey(uids)
       IN lowerPriorityToAllTasks(takeAndStart(st, st.Tasks[u], "Low"),
                                  uids \ {u})

\* A test for the Instances level, as ctkDICOMPoolManager makes it.
RaisedLevel_instances == "Instances"

\* ctkDICOMTaskPool::raiseRetrieveFramesTasksPriorityForSeries: the level of
\* the tasks it raises
RaisedLevel == "Series"

\* ctkDICOMTaskPool::raiseRetrieveFramesTasksPriorityForSeries over the keys
\* uids
RECURSIVE raiseRetrieveFramesTasksPriorityForSeries(_, _, _, _, _)
raiseRetrieveFramesTasksPriorityForSeries(st, uids, study, series, prio) ==
  IF uids = {} THEN st
  ELSE LET u == FirstKey(uids)
           t == st.Tasks[u]
           r == st.task[t]
           st1 == IF r.kind # "retrieve" \/ r.Running \/ r.Finished THEN st
                  ELSE IF /\ r.level = RaisedLevel
                          /\ r.studyInstanceUID = study
                          /\ r.seriesInstanceUID = series
                       THEN takeAndStart(st, t, prio)
                       ELSE st
       IN raiseRetrieveFramesTasksPriorityForSeries(st1, uids \ {u}, study,
                                                    series, prio)

\* ctkDICOMPoolManager::raiseRetrieveFramesTasksPriorityForSeries over the keys
\* uids: the matching Instances-level task is taken and started at prio; then
\* every retrieve task that is neither running nor finished, the matching one
\* included, is taken and started at LowPriority
RECURSIVE PoolManager_raiseRetrieveFramesTasksPriorityForSeries(_, _, _, _, _)
PoolManager_raiseRetrieveFramesTasksPriorityForSeries(st, uids, study, series, prio) ==
  IF uids = {} THEN st
  ELSE LET u == FirstKey(uids)
           t == st.Tasks[u]
           r == st.task[t]
           st1 == IF r.kind # "retrieve" \/ r.Running \/ r.Finished THEN st
                  ELSE LET st2 == IF /\ r.level = "Instances"
                                     /\ r.studyInstanceUID = study
                                     /\ r.seriesInstanceUID = series
                                  THEN takeAndStart(st, t, prio)
                                  ELSE st
                       IN takeAndStart(st2, t, "Low")
       IN PoolManager_raiseRetrieveFramesTasksPriorityForSeries(
            st1, uids \ {u}, study, series, prio)

\* The series the user selects, and the priority given.
RaiseStudyUIDs == {"ST1"}
RaiseSeriesUIDs == {"SE1", "SE2"}
RaisePriorities == {"Normal", "High"}

\* The user selects a series: ctkDICOMTaskPool::raiseRetrieveFramesTasksPriorityForSeries
RaisePriority(study, series, prio) ==
  /\ coord.pc = "loop"
  /\ Commit(raiseRetrieveFramesTasksPriorityForSeries(
              resetTakes(State), DOMAIN Tasks, study, series, prio))
  /\ UNCHANGED <<SeriesItem, Request, node, copy, Query, Servers, erased, Filters, events, timers, coord, calls>>

\* The same selection handled by ctkDICOMPoolManager.
PoolManagerRaisePriority(study, series, prio) ==
  /\ coord.pc = "loop"
  /\ Commit(PoolManager_raiseRetrieveFramesTasksPriorityForSeries(
              resetTakes(State), DOMAIN Tasks, study, series, prio))
  /\ UNCHANGED <<SeriesItem, Request, node, copy, Query, Servers, erased, Filters, events, timers, coord, calls>>

\* ctkDICOMTaskPool::lowerPriorityToAllTasks is called.
LowerPriorityToAllTasks ==
  /\ coord.pc = "loop"
  /\ Commit(lowerPriorityToAllTasks(resetTakes(State), DOMAIN Tasks))
  /\ UNCHANGED <<SeriesItem, Request, node, copy, Query, Servers, erased, Filters, events, timers, coord, calls>>

Reprioritise ==
  \/ \E study \in RaiseStudyUIDs, series \in RaiseSeriesUIDs,
        prio \in RaisePriorities : RaisePriority(study, series, prio)
  \/ \E study \in RaiseStudyUIDs, series \in RaiseSeriesUIDs,
        prio \in RaisePriorities : PoolManagerRaisePriority(study, series, prio)
  \/ LowerPriorityToAllTasks

\* The user calls waitForFinish() (msecTimeout = -1).
WaitForFinish ==
  /\ coord.pc = "loop"
  /\ coord' = [pc |-> waitForFinishEntry(State), then |-> Servers, destroys |-> {}]
  /\ UNCHANGED <<SeriesItem, Request, node, copy, Query, Servers, erased, Tasks, Filters, task, queue, events, timers,
                 nextUID, calls>>

\* ctkDICOMTaskPool::addServer : stopAllTasks(); waitForFinish(); push_back
\* (a server object is handed over once)
AddServer(s) ==
  /\ coord.pc = "loop"
  /\ Len(Servers) + Cardinality(erased) < MaxServers
  /\ s \notin erased /\ \A i \in 1..Len(Servers) : Servers[i] # s
  /\ LET st == stopAllTasks(State)
     IN /\ Commit(st)
        /\ coord' = [pc |-> waitForFinishEntry(st), then |-> Append(Servers, s),
                     destroys |-> {}]
  /\ UNCHANGED <<SeriesItem, Request, node, copy, Query, Servers, erased, Filters, events, timers, calls>>

\* ctkDICOMTaskPool::getServerIndexFromName (0-based, -1 when absent)
getServerIndexFromName(name) ==
  IF \E i \in 1..Len(Servers) : ServerObjects[Servers[i]].connectionName = name
  THEN (CHOOSE i \in 1..Len(Servers) :
          /\ ServerObjects[Servers[i]].connectionName = name
          /\ \A j \in 1..(i - 1) : ServerObjects[Servers[j]].connectionName # name) - 1
  ELSE -1

\* ctkDICOMTaskPool::removeNthServer : returns at once for an id out of range;
\* stopAllTasks(); waitForFinish(); erase
RemoveNthServer(id) ==
  /\ coord.pc = "loop"
  /\ ~(id < 0 \/ id > Len(Servers) - 1)
  /\ LET st == stopAllTasks(State)
     IN /\ Commit(st)
        /\ coord' = [pc |-> waitForFinishEntry(st),
                     then |-> SeqWithoutNth(Servers, id + 1),
                     destroys |-> {Servers[id + 1]}]
  /\ UNCHANGED <<SeriesItem, Request, node, copy, Query, Servers, erased, Filters, events, timers, calls>>

\* ctkDICOMTaskPool::removeServer(connectionName)
RemoveServer(name) == RemoveNthServer(getServerIndexFromName(name))

\* ctkDICOMTaskPool::removeAllServers : stopAllTasks(); waitForFinish(); clear
RemoveAllServers ==
  /\ coord.pc = "loop"
  /\ Servers # <<>>
  /\ LET st == stopAllTasks(State)
     IN /\ Commit(st)
        /\ coord' = [pc |-> waitForFinishEntry(st), then |-> <<>>,
                     destroys |-> {Servers[i] : i \in 1..Len(Servers)}]
  /\ UNCHANGED <<SeriesItem, Request, node, copy, Query, Servers, erased, Filters, events, timers, calls>>

\* waitForFinish: QThreadPool::waitForDone(-1) returns once no thread is active
\* and nothing is queued
WaitForDoneReturns ==
  /\ coord.pc = "waitForDone"
  /\ PoolIdle
  /\ coord' = [coord EXCEPT !.pc = "processEvents"]
  /\ UNCHANGED <<SeriesItem, Request, node, copy, Query, Servers, erased, Tasks, Filters, task, queue, events, timers,
                 nextUID, calls>>

\* waitForFinish: processEvents() has handled the posted events;
\* deleteAllTasks()
WaitForFinishDeletes ==
  /\ coord.pc = "processEvents"
  /\ events = <<>>
  /\ Commit(deleteAllTasks(State))
  /\ coord' = [coord EXCEPT !.pc = "waitForFinishReturned"]
  /\ UNCHANGED <<SeriesItem, Request, node, copy, Query, Servers, erased, Filters, events, timers, calls>>

\* waitForFinish has returned: the caller goes on with d->Servers.push_back,
\* erase or clear; an erased server object is destroyed
WaitForFinishReturns ==
  /\ coord.pc = "waitForFinishReturned"
  /\ coord' = Idle
  /\ Servers' = coord.then
  /\ erased' = erased \cup coord.destroys
  /\ UNCHANGED <<SeriesItem, Request, node, copy, Query, Tasks, Filters, task, queue, events, timers, nextUID, calls>>

Servers_ops ==
  \/ \E s \in AddableServers : AddServer(s)
  \/ \E name \in AddableServers : RemoveServer(name)
  \/ RemoveAllServers

\* --------------------------------------------------------------------- slots
\* The event loop delivers events when it is idle and inside processEvents().
Dispatching == coord.pc \in {"loop", "processEvents", "timedLoop"}

\* A slot entered for a task whose signals were disconnected (deleteTask) finds
\* sender() null and does nothing.
Delivered(t) == task[t].connected

\* The values of ctkDICOMRetrieve::RetrieveType. The task chained after a
\* C-MOVE holds a retriever made by new ctkDICOMRetrieve on which no retrieve
\* has been called yet: getLastRetrieveType() returns the value the object was
\* constructed with, whatever the level given to the task.
RetrieveTypes ==
  {"RetrieveNone", "RetrieveSOPInstance", "RetrieveSeries", "RetrieveStudy"}

\* taskFinished: the priority the chained C-GET task is started with
ChainPriority(lastRetrieveType) ==
  IF lastRetrieveType = "RetrieveSOPInstance" THEN "Normal" ELSE "Low"

\* A chained task that is set against the server of the finished task.
ChainedRetrieveTask_sameServer(r, t, newTaskUID) ==
  [ NewRetrieveTask EXCEPT
      !.server = r.server,
      !.level = r.level,
      !.studyInstanceUID = r.studyInstanceUID,
      !.seriesInstanceUID = r.seriesInstanceUID,
      !.sopInstanceUID = r.sopInstanceUID,
      !.NumberOfRetry = r.NumberOfRetry + 1,
      !.TaskUID = newTaskUID,
      !.connected = TRUE, !.origin = "chain", !.parent = t ]

\* taskFinished: the task chained after a C-MOVE retrieve, against the proxy
ChainedRetrieveTask(r, t, newTaskUID) ==
  [ NewRetrieveTask EXCEPT
      !.server = ServerObjects[r.server].proxyServer,
      !.level = r.level,
      !.studyInstanceUID = r.studyInstanceUID,
      !.seriesInstanceUID = r.seriesInstanceUID,
      !.sopInstanceUID = r.sopInstanceUID,
      !.NumberOfRetry = r.NumberOfRetry + 1,
      !.TaskUID = newTaskUID,
      !.connected = TRUE, !.origin = "chain", !.parent = t ]

\* A test of the proxy pointer only.
HasProxy_enabledOrNot(r) == ServerObjects[r.server].proxyServer # ""

\* taskFinished: proxyServer && proxyServer->queryRetrieveEnabled()
HasProxy(r) ==
  /\ ServerObjects[r.server].proxyServer # ""
  /\ ServerObjects[ServerObjects[r.server].proxyServer].queryRetrieveEnabled

\* taskFinished: the branch taken for a retrieve task
IsMoveRetrieve(r) ==
  ServerObjects[r.server].retrieveProtocol = "CMOVE" /\ ~r.Stop

\* taskFinished: emit progressTaskDetail(nullptr)
emitNullProgress(st, t) == [st EXCEPT !.task[t].nullProgress = @ + 1]

\* ctkDICOMQueryTask::taskResultsList, ctkDICOMRetrieveTask::taskResultsList :
\* the list of shared pointers to the result objects the task's driver holds
\* (an object is named by its owner and its position)
taskResultsList(r, t) == {[owner |-> t, n |-> i] : i \in 1..r.results}

\* taskFinished: d->Indexer->insertTaskResultsList(task->taskResultsList())
insertTaskResultsList(st, t) ==
  [st EXCEPT !.task[t].indexed = TRUE,
             !.task[t].received = taskResultsList(st.task[t], t)]

\* ctkDICOMSeriesItemWidget::updateGUIFromTaskPool on a result of task t:
\* when the result is of the widget's series (w), deleteTask(taskUID)
updateGUIFromTaskPool(st, t, w) ==
  IF w THEN deleteTask(st, st.task[t].TaskUID) ELSE st

\* A query branch of taskFinished that does not look at the Stop flag.
taskFinishedQuery_ignoringStop(st, t) ==
  IF st.task[t].results > 0
  THEN insertTaskResultsList(st, t)
  ELSE emitNullProgress(st, t)
\* ctkDICOMTaskPool::taskFinished, query task
taskFinishedQuery(st, t) ==
  IF st.task[t].results > 0 /\ ~st.task[t].Stop
  THEN insertTaskResultsList(st, t)
  ELSE emitNullProgress(st, t)

\* ctkDICOMTaskPool::taskFinished, retrieve task
taskFinishedRetrieve(st, t, w, lastRetrieveType) ==
  LET r == st.task[t]
  IN IF IsMoveRetrieve(r)
     THEN LET st1 == IF r.results > 0
                     THEN updateGUIFromTaskPool(st, t, w) ELSE st
          IN IF HasProxy(r)
             THEN LET n   == NextTask(st1.task)
                      uid == generateUniqueTaskUID(st1)
                      new == ChainedRetrieveTask(r, t, uid)
                      priority == ChainPriority(lastRetrieveType)
                  IN start([st1 EXCEPT
                              !.task[n] =
                                [new EXCEPT !.chainPriority = priority],
                              !.Tasks = insert(st1.Tasks, uid, n),
                              !.nextUID = uid],
                           n, priority)
             ELSE st1
     ELSE IF r.results > 0 /\ ~r.Stop
          THEN insertTaskResultsList(st, t)
          ELSE emitNullProgress(st, t)

taskFinished(t) ==
  /\ Dispatching
  /\ events # <<>> /\ Head(events) = [sig |-> "finished", t |-> t]
  /\ events' = Tail(events)
  /\ IF ~Delivered(t)
     THEN UNCHANGED <<Tasks, task, queue, nextUID>>
     ELSE LET st == [State EXCEPT !.task[t].handled = "finished"]
          IN IF task[t].kind = "query"
             THEN Commit(taskFinishedQuery(st, t))
             ELSE /\ IsMoveRetrieve(task[t]) /\ HasProxy(task[t])
                       => FreeTasks(task) >= 1
                  /\ \E w \in BOOLEAN, lastRetrieveType \in RetrieveTypes :
                       Commit(taskFinishedRetrieve(st, t, w, lastRetrieveType))
  /\ UNCHANGED <<SeriesItem, Request, node, copy, Query, Servers, erased, Filters, timers, coord, calls>>

\* A retry policy that looks at the number of attempts only.
ShouldRetry_ignoringStop(r) == r.NumberOfRetry < MaximumNumberOfRetry
\* taskCanceled: whether a new attempt is made
ShouldRetry(r) == r.NumberOfRetry < MaximumNumberOfRetry /\ ~r.Stop

\* taskCanceled: the new query task (it keeps the canceled task's UID until
\* taskRetry)
RetryQueryTask(r, t) ==
  [ NewQueryTask EXCEPT
      !.server = r.server,
      !.filters = Filters,
      !.level = r.level,
      !.studyInstanceUID = r.studyInstanceUID,
      !.seriesInstanceUID = r.seriesInstanceUID,
      !.NumberOfRetry = r.NumberOfRetry + 1,
      !.TaskUID = r.TaskUID,
      !.origin = "retry", !.parent = t ]

\* taskCanceled: the new retrieve task
RetryRetrieveTask(r, t) ==
  [ NewRetrieveTask EXCEPT
      !.server = r.server,
      !.level = r.level,
      !.studyInstanceUID = r.studyInstanceUID,
      !.seriesInstanceUID = r.seriesInstanceUID,
      !.sopInstanceUID = r.sopInstanceUID,
      !.NumberOfRetry = r.NumberOfRetry + 1,
      !.TaskUID = r.TaskUID,
      !.origin = "retry", !.parent = t ]

\* ctkDICOMTaskPool::taskCanceled
taskCanceled(t) ==
  /\ Dispatching
  /\ events # <<>> /\ Head(events) = [sig |-> "canceled", t |-> t]
  /\ events' = Tail(events)
  /\ IF ~Delivered(t)
     THEN UNCHANGED <<Tasks, task, queue, nextUID, timers>>
     ELSE LET r  == task[t]
              st == [State EXCEPT !.task[t].handled = "canceled"]
              n  == NextTask(task)
          IN IF ShouldRetry(r)
             THEN /\ FreeTasks(task) >= 1
                  /\ timers' = timers \cup {n}
                  /\ Commit(deleteTask(
                       [st EXCEPT !.task[n] =
                          IF r.kind = "query" THEN RetryQueryTask(r, t)
                                              ELSE RetryRetrieveTask(r, t)],
                       r.TaskUID))
             ELSE /\ timers' = timers
                  /\ Commit(deleteTask(
                       IF ~r.Stop /\ r.kind = "query"
                       THEN emitNullProgress(st, t) ELSE st,
                       r.TaskUID))
  /\ UNCHANGED <<SeriesItem, Request, node, copy, Query, Servers, erased, Filters, coord, calls>>

\* A taskRetry that keeps the UID taskCanceled gave the task.
RetryTaskUID_reused(st, n) == st.task[n].TaskUID
\* The UID taskRetry registers the task under
RetryTaskUID(st, n) == generateUniqueTaskUID(st)

\* ctkDICOMTaskPool::taskRetry, called when the single-shot timer of
\* taskCanceled expires: connect, new UID, register, start at LowPriority
taskRetry(n) ==
  /\ Dispatching
  /\ n \in timers
  /\ timers' = timers \ {n}
  /\ LET uid == RetryTaskUID(State, n)
     IN Commit(start([State EXCEPT !.task[n].connected = TRUE,
                                   !.task[n].TaskUID = uid,
                                   !.Tasks = insert(Tasks, uid, n),
                                   !.nextUID = IF uid > nextUID THEN uid
                                                                ELSE nextUID],
                     n, "Low"))
  /\ UNCHANGED <<SeriesItem, Request, node, copy, Query, Servers, erased, Filters, events, coord, calls>>

\* The Indexer reports the results of task t it has committed
\* (progressTaskDetail(result)); the series widget reacts.
IndexerProgress(t) ==
  /\ Dispatching
  /\ task[t].indexed /\ ~task[t].notified
  /\ \E w \in BOOLEAN :
       Commit(updateGUIFromTaskPool([State EXCEPT !.task[t].notified = TRUE],
                                    t, w))
  /\ UNCHANGED <<SeriesItem, Request, node, copy, Query, Servers, erased, Filters, events, timers, coord, calls>>

Slots ==
  \E t \in TaskIds :
    \/ taskFinished(t) \/ taskCanceled(t) \/ taskRetry(t)
    \/ IndexerProgress(t)

\* ------------------------------------------------- ctkDICOMTaskResults
\* ctkDICOMTaskResultsPrivate constructor. Dataset is <<>> for nullptr,
\* <<"file", path>> once initialised from a file, <<"dataset", x>> once set
\* from a response.
NewTaskResults ==
  [FilePath |-> "", CopyFile |-> FALSE, OverwriteExistingDataset |-> FALSE,
   TypeOfTask |-> "FileIndexing", TaskUID |-> "", PatientID |-> "",
   StudyInstanceUID |-> "", SeriesInstanceUID |-> "", SOPInstanceUID |-> "",
   ConnectionName |-> "", Dataset |-> <<>>]

\* The paths a result object is given: none, a server URL, a local file.
FilePaths == {"", "server://GET", "/incoming/I1.dcm"}

\* d->FilePath.contains("server://")
ContainsServerScheme(path) == path = "server://GET"

\* setFilePath: stores the path and, unless it is empty or a server URL,
\* replaces the dataset by one read from that file.
setFilePath(r, filePath) ==
  IF ContainsServerScheme(filePath) \/ filePath = ""
  THEN [r EXCEPT !.FilePath = filePath]
  ELSE [r EXCEPT !.FilePath = filePath, !.Dataset = <<"file", filePath>>]

setCopyFile(r, v) == [r EXCEPT !.CopyFile = v]
setOverwriteExistingDataset(r, v) == [r EXCEPT !.OverwriteExistingDataset = v]
setTypeOfTask(r, v) == [r EXCEPT !.TypeOfTask = v]
setTaskUID(r, v) == [r EXCEPT !.TaskUID = v]
setPatientID(r, v) == [r EXCEPT !.PatientID = v]
setStudyInstanceUID(r, v) == [r EXCEPT !.StudyInstanceUID = v]
setSeriesInstanceUID(r, v) == [r EXCEPT !.SeriesInstanceUID = v]
setSOPInstanceUID(r, v) == [r EXCEPT !.SOPInstanceUID = v]
setConnectionName(r, v) == [r EXCEPT !.ConnectionName = v]
\* setDataset: if (!dataset) return;
setDataset(r, v) == IF v = <<>> THEN r ELSE [r EXCEPT !.Dataset = v]

\* ------------------------------------------------------ ctkDICOMQuery
\* The non-null datasets one C-FIND returns.
MaxDatasets == 2

\* (*it)->m_dataset of one response: <<>> is NULL, as in the last response
ResponseDatasets == {<<>>, <<"dataset", "D1">>, <<"dataset", "D2">>}

\* The response lists d->SCU.sendFINDRequest fills: up to MaxDatasets
\* responses and a terminating one, any of them with or without a dataset.
ResponseLists ==
  UNION {[1..n -> ResponseDatasets] : n \in 0..(MaxDatasets + 1)}

\* dataset->findAndGetOFString(DCM_StudyInstanceUID / DCM_SeriesInstanceUID, ..)
InstanceUIDOf(dataset) == IF dataset = <<>> THEN "" ELSE dataset[2]

\* if (dataset != NULL) with the test left out.
IsNull_never(dataset) == FALSE
\* the test dataset != NULL of the response loops, negated
IsNull(dataset) == dataset = <<>>

\* The driver functions of ctkDICOMQuery a worker thread runs.
DriverFunctions == {"query", "queryStudies", "querySeries", "queryInstances"}

\* ctkDICOMQueryPrivate constructor: Canceled = false, no association. fn and
\* pc are the function the worker thread is in and its position; finds,
\* findsAfterCancel, findFailed, contextFound, sentWithContext0, negotiated and
\* ret are history of the calls made and of the value returned.
NewQuery(fn) ==
  [fn |-> fn, pc |-> "entry", Canceled |-> FALSE, associated |-> FALSE,
   presentationContext |-> 0, responses |-> <<>>, studies |-> 0, i |-> 0,
   TaskResults |-> <<>>, datasetsMap |-> {},
   ConnectionName |-> "", taskUID |-> "", studyInstanceUID |-> "",
   seriesInstanceUID |-> "", received |-> <<>>,
   finds |-> 0, findsAfterCancel |-> 0, findFailed |-> FALSE,
   contextFound |-> FALSE, sentWithContext0 |-> FALSE, negotiated |-> FALSE,
   ret |-> ""]

\* No driver function is being run.
NoQuery == [NewQuery("") EXCEPT !.pc = "none"]

\* The positions at which the code reads d->Canceled.
PollPCs == {"entry", "scu", "negotiating", "filters", "context", "starting",
            "sent", "processed", "study", "seriesFound", "studyDone",
            "finishing"}

\* Where the function goes on after a check of d->Canceled that found false.
AfterPoll(q) ==
  CASE q.pc = "entry" -> "scu"
    [] q.pc = "scu" -> "initNetwork"
    [] q.pc = "negotiating" -> "negotiateAssociation"
    [] q.pc = "filters" -> "findPresentationContextID"
    [] q.pc = "context" ->
         IF q.fn \in {"querySeries", "queryInstances"} THEN "starting"
         ELSE "sendFINDRequest"
    [] q.pc = "starting" -> "sendFINDRequest"
    [] q.pc = "sent" -> "responses"
    [] q.pc = "processed" -> "responses"
    [] q.pc = "study" -> "sendFINDRequestSeries"
    [] q.pc = "seriesFound" -> "studyDone"
    [] q.pc = "studyDone" -> "studies"
    [] q.pc = "finishing" -> "release"

\* return v;
return(q, v) == [q EXCEPT !.pc = "returned", !.ret = v]

\* d->SCU.releaseAssociation()
releaseAssociation(q) == [q EXCEPT !.associated = FALSE]

\* A check that never sees the flag.
CanceledSeen_never(q) == FALSE

\* if (d->Canceled)
CanceledSeen(q) == q.Canceled

\* if (d->Canceled) { return false; } : the function returns as it is, the
\* association is not released; query() also clears its lists and the three
\* task functions clear d->TaskResults right after the first check
Poll ==
  /\ Query.pc \in PollPCs
  /\ Query' = IF CanceledSeen(Query) THEN return(Query, "false")
              ELSE [Query EXCEPT !.pc = AfterPoll(Query),
                                 !.TaskResults = IF Query.pc = "entry" THEN <<>> ELSE @,
                                 !.studies = IF Query.pc = "entry" THEN 0 ELSE @,
                                 !.i = IF Query.pc = "studyDone" THEN @ + 1 ELSE @]
  /\ UNCHANGED <<Servers, erased, Tasks, Filters, task, queue, events, timers,
                 coord, nextUID, calls, node, copy, SeriesItem, Request>>

\* ctkDICOMQueryTask::setStop -> ctkDICOMQuery::cancel, from another thread
Cancel ==
  /\ Query.pc \notin {"none", "returned"}
  /\ ~Query.Canceled
  /\ Query' = [Query EXCEPT !.Canceled = TRUE]
  /\ UNCHANGED <<Servers, erased, Tasks, Filters, task, queue, events, timers,
                 coord, nextUID, calls, node, copy, SeriesItem, Request>>

\* initializeSCU: if (!d->SCU.initNetwork().good()) return false;
InitNetwork ==
  /\ Query.pc = "initNetwork"
  /\ \E good \in BOOLEAN :
       Query' = IF good THEN [Query EXCEPT !.pc = "negotiating"]
                ELSE return(Query, "false")
  /\ UNCHANGED <<Servers, erased, Tasks, Filters, task, queue, events, timers,
                 coord, nextUID, calls, node, copy, SeriesItem, Request>>

\* initializeSCU: negotiateAssociation(); if (result.bad()) return false;
\* return true; the caller returns false when initializeSCU did
NegotiateAssociation ==
  /\ Query.pc = "negotiateAssociation"
  /\ \E good \in BOOLEAN :
       Query' = IF good
                THEN [Query EXCEPT !.pc = "filters", !.associated = TRUE,
                                   !.negotiated = TRUE]
                ELSE return(Query, "false")
  /\ UNCHANGED <<Servers, erased, Tasks, Filters, task, queue, events, timers,
                 coord, nextUID, calls, node, copy, SeriesItem, Request>>

\* presentationContext = d->SCU.findPresentationContextID(...); 0 is logged
\* and the function goes on
FindPresentationContextID ==
  /\ Query.pc = "findPresentationContextID"
  /\ \E id \in {0, 1} :
       Query' = [Query EXCEPT !.pc = "context", !.presentationContext = id,
                              !.contextFound = TRUE]
  /\ UNCHANGED <<Servers, erased, Tasks, Filters, task, queue, events, timers,
                 coord, nextUID, calls, node, copy, SeriesItem, Request>>

\* history of a call of d->SCU.sendFINDRequest(presentationContext, ...)
sendFINDRequest(q, good) ==
  [q EXCEPT !.finds = @ + 1,
            !.findsAfterCancel = IF q.Canceled THEN @ + 1 ELSE @,
            !.sentWithContext0 = @ \/ q.presentationContext = 0]

\* queryStudies: the result object built for the dataset of one response
StudiesResult(q, dataset) ==
  setTaskUID(setDataset(setConnectionName(setStudyInstanceUID(
    setTypeOfTask(NewTaskResults, "QueryStudies"),
    InstanceUIDOf(dataset)), q.ConnectionName), dataset), q.taskUID)

\* querySeries: the result object built for the dataset of one response
SeriesResult(q, dataset) ==
  setTaskUID(setDataset(setConnectionName(setSeriesInstanceUID(
    setStudyInstanceUID(setTypeOfTask(NewTaskResults, "QuerySeries"),
                        q.studyInstanceUID),
    InstanceUIDOf(dataset)), q.ConnectionName), dataset), q.taskUID)

\* queryInstances: the one result object, built before the C-FIND is sent
InstancesResult(q) ==
  setTaskUID(setConnectionName(setSeriesInstanceUID(
    setStudyInstanceUID(setTypeOfTask(NewTaskResults, "QueryInstances"),
                        q.studyInstanceUID),
    q.seriesInstanceUID), q.ConnectionName), q.taskUID)

\* querySeries: the loop over the responses, one result object appended for
\* each dataset that is not NULL
RECURSIVE appendSeriesResults(_, _)
appendSeriesResults(q, rs) ==
  IF rs = <<>> THEN q
  ELSE appendSeriesResults(
         IF IsNull(Head(rs)) THEN q
         ELSE [q EXCEPT !.TaskResults = Append(@, SeriesResult(q, Head(rs)))],
         Tail(rs))

\* queryInstances: datasetsMap.insert(SOPInstanceUID, dataset) for each dataset
\* that is not NULL
insertDatasets(rs) ==
  {InstanceUIDOf(rs[i]) : i \in {j \in 1..Len(rs) : ~IsNull(rs[j])}}

\* The first C-FIND of the function. query, queryStudies: a status that is
\* not good releases the association and returns false. querySeries,
\* queryInstances: the results are built on a good status, the failure is
\* logged otherwise, and the function goes on in both cases; queryInstances
\* appends its one result object in both cases. The response list is read
\* on a good status only.
SendFIND ==
  /\ Query.pc = "sendFINDRequest"
  /\ \E good \in BOOLEAN, rs \in ResponseLists :
       LET q == [sendFINDRequest(Query, good) EXCEPT
                   !.findFailed = ~good,
                   !.received = IF good THEN rs ELSE <<>>]
       IN Query' =
            IF Query.fn \in {"query", "queryStudies"}
            THEN IF ~good THEN return(releaseAssociation(q), "false")
                 ELSE [q EXCEPT !.pc = "sent", !.responses = rs]
            ELSE IF q.fn = "queryInstances"
            THEN [q EXCEPT !.pc = "finishing",
                           !.datasetsMap = IF good THEN insertDatasets(rs)
                                                   ELSE {},
                           !.TaskResults = Append(@, InstancesResult(q))]
            ELSE [(IF good THEN appendSeriesResults(q, rs) ELSE q)
                    EXCEPT !.pc = "finishing"]
  /\ UNCHANGED <<Servers, erased, Tasks, Filters, task, queue, events, timers,
                 coord, nextUID, calls, node, copy, SeriesItem, Request>>

\* query, queryStudies: the loop over the responses; after it queryStudies
\* releases the association and returns true, query starts its loop over the
\* studies found
Responses ==
  /\ Query.pc = "responses"
  /\ Query' =
       IF Query.responses # <<>>
       THEN LET dataset == Head(Query.responses)
                q == [Query EXCEPT !.responses = Tail(@)]
            IN IF IsNull(dataset) THEN q
               ELSE [q EXCEPT !.pc = "processed",
                              !.studies = IF Query.fn = "query" THEN @ + 1
                                                                ELSE @,
                              !.TaskResults =
                                IF Query.fn = "queryStudies"
                                THEN Append(@, StudiesResult(Query, dataset))
                                ELSE @]
       ELSE IF Query.fn = "queryStudies"
            THEN return(releaseAssociation(Query), "true")
            ELSE [Query EXCEPT !.pc = "studies", !.i = 0]
  /\ UNCHANGED <<Servers, erased, Tasks, Filters, task, queue, events, timers,
                 coord, nextUID, calls, node, copy, SeriesItem, Request>>

\* query: foreach study found; after the loop releaseAssociation, return true
Studies ==
  /\ Query.pc = "studies"
  /\ Query' = IF Query.i < Query.studies THEN [Query EXCEPT !.pc = "study"]
              ELSE return(releaseAssociation(Query), "true")
  /\ UNCHANGED <<Servers, erased, Tasks, Filters, task, queue, events, timers,
                 coord, nextUID, calls, node, copy, SeriesItem, Request>>

\* query: the series C-FIND of one study; a failure is logged only
SendFINDSeries ==
  /\ Query.pc = "sendFINDRequestSeries"
  /\ \E good \in BOOLEAN :
       Query' = [sendFINDRequest(Query, good) EXCEPT
                   !.pc = IF good THEN "seriesFound" ELSE "studyDone"]
  /\ UNCHANGED <<Servers, erased, Tasks, Filters, task, queue, events, timers,
                 coord, nextUID, calls, node, copy, SeriesItem, Request>>

\* querySeries, queryInstances: d->SCU.releaseAssociation(); return true;
Release ==
  /\ Query.pc = "release"
  /\ Query' = return(releaseAssociation(Query), "true")
  /\ UNCHANGED <<Servers, erased, Tasks, Filters, task, queue, events, timers,
                 coord, nextUID, calls, node, copy, SeriesItem, Request>>

\* d->ConnectionName (setConnectionName) and the taskUID argument of the call
DriverConnectionNames == {"GET", "MOVE"}
DriverTaskUIDs == {"1", "2"}

InitDriver ==
  /\ Servers = <<>>
  /\ erased = {}
  /\ Tasks = << >>
  /\ Filters = "F0"
  /\ task = [t \in TaskIds |-> NoneTask]
  /\ queue = <<>>
  /\ events = <<>>
  /\ timers = {}
  /\ coord = [pc |-> "loop", then |-> <<>>, destroys |-> {}]
  /\ nextUID = 0
  /\ calls = 0
  /\ node = <<>>
  /\ copy = <<>>
  /\ SeriesItem = NoSeriesItem
  /\ Request = NoRequest
  /\ Query \in {[NewQuery(fn) EXCEPT !.ConnectionName = c, !.taskUID = u,
                                     !.studyInstanceUID = "ST1",
                                     !.seriesInstanceUID = "SE1"] :
                  fn \in DriverFunctions, c \in DriverConnectionNames,
                  u \in DriverTaskUIDs}

NextDriver ==
  \/ Poll \/ Cancel \/ InitNetwork \/ NegotiateAssociation
  \/ FindPresentationContextID \/ SendFIND \/ Responses \/ Studies
  \/ SendFINDSeries \/ Release

SpecDriver == InitDriver /\ [][NextDriver]_vars

\* ---------------------------------------- ctkDICOMTaskResults::deepCopy
\* this->deepCopy(node): nothing when node is nullptr; otherwise the setters
\* in the order of the code, each with the getter the code reads.
deepCopy(this, n) ==
  IF n = <<>> THEN this
  ELSE LET src == n[1]
           r1 == setFilePath(this, src.FilePath)
           r2 == setCopyFile(r1, src.CopyFile)
           r3 == setOverwriteExistingDataset(r2, src.OverwriteExistingDataset)
           r4 == setTypeOfTask(r3, src.TypeOfTask)
           r5 == setTaskUID(r4, src.FilePath)
           r6 == setPatientID(r5, src.PatientID)
           r7 == setStudyInstanceUID(r6, src.StudyInstanceUID)
           r8 == setSeriesInstanceUID(r7, src.SeriesInstanceUID)
           r9 == setSOPInstanceUID(r8, src.SOPInstanceUID)
           r10 == setConnectionName(r9, src.ConnectionName)
       IN IF src.Dataset # <<>> THEN setDataset(r10, src.Dataset) ELSE r10

\* The result objects a driver or the indexer builds with the setters.
TaskResultsObjects ==
  { setDataset(
      setConnectionName(setSOPInstanceUID(setSeriesInstanceUID(
        setStudyInstanceUID(setPatientID(setTaskUID(setTypeOfTask(
          setOverwriteExistingDataset(setCopyFile(
            setFilePath(NewTaskResults, f), c), o), ty), u), p), st), se),
        so), cn),
      d) :
      f \in FilePaths, c \in BOOLEAN, o \in BOOLEAN,
      ty \in {"FileIndexing", "QueryStudies", "RetrieveSOPInstance"},
      u \in {"", "1"}, p \in {"", "P1"}, st \in {"", "ST1"},
      se \in {"", "SE1"}, so \in {"", "I1"}, cn \in {"", "GET"},
      d \in {<<>>, <<"dataset", "I1">>} }

\* The caller allocates a fresh object and copies the handed-over result
\* into it: copy = new ctkDICOMTaskResults; copy->deepCopy(node).
DeepCopy ==
  /\ copy = <<>>
  /\ copy' = <<deepCopy(NewTaskResults, node)>>
  /\ UNCHANGED <<Servers, erased, Tasks, Filters, task, queue, events, timers,
                 coord, nextUID, calls, node, Query, SeriesItem, Request>>

InitCopy ==
  /\ Servers = <<>>
  /\ erased = {}
  /\ Tasks = << >>
  /\ Filters = "F0"
  /\ task = [t \in TaskIds |-> NoneTask]
  /\ queue = <<>>
  /\ events = <<>>
  /\ timers = {}
  /\ coord = Idle
  /\ nextUID = 0
  /\ calls = 0
  /\ node \in {<<>>} \cup {<<r>> : r \in TaskResultsObjects}
  /\ copy = <<>>
  /\ Query = NoQuery
  /\ SeriesItem = NoSeriesItem
  /\ Request = NoRequest

SpecCopy == InitCopy /\ [][DeepCopy]_vars

\* ------------------------------------------- the operations on any server list
\* The server lists addServer can have built before an operation is called.
MaxListedServers == 2

ServerLists ==
  UNION {[1..n -> DOMAIN ServerObjects] : n \in 0..MaxListedServers}

InitCalls ==
  /\ Servers \in ServerLists
  /\ erased = {}
  /\ Tasks = << >>
  /\ Filters = "F0"
  /\ task = [t \in TaskIds |-> NoneTask]
  /\ queue = <<>>
  /\ events = <<>>
  /\ timers = {}
  /\ coord = Idle
  /\ nextUID = 0
  /\ calls = 0
  /\ node = <<>>
  /\ copy = <<>>
  /\ Query = NoQuery
  /\ SeriesItem = NoSeriesItem
  /\ Request = NoRequest

NextCalls ==
  \/ queryPatients \/ queryStudies \/ querySeries \/ queryInstances
  \/ retrieveStudy \/ retrieveSeries \/ retrieveSOPInstance

SpecCalls == InitCalls /\ [][NextCalls]_vars

\* --------------------------------------- re-prioritisation of a filled pool
\* The operations scheduled before the user selects a series: retrieves of
\* two series at the Series level, of one at the Instances level, and a query.
ScheduledTasks ==
  { [NewRetrieveTask EXCEPT !.level = "Series", !.studyInstanceUID = "ST1",
                            !.seriesInstanceUID = "SE1"],
    [NewRetrieveTask EXCEPT !.level = "Series", !.studyInstanceUID = "ST1",
                            !.seriesInstanceUID = "SE2"],
    [NewRetrieveTask EXCEPT !.level = "Instances", !.studyInstanceUID = "ST1",
                            !.seriesInstanceUID = "SE1",
                            !.sopInstanceUID = "I1"],
    [NewQueryTask EXCEPT !.filters = "F0", !.level = "Instances",
                         !.patientID = "P1", !.studyInstanceUID = "ST1",
                         !.seriesInstanceUID = "SE1"] }

ScheduledPriorities == {"Low", "Normal"}

\* The calls made: up to MaxTasks operations, each with its priority.
ScheduledCalls ==
  UNION {[1..n -> ScheduledTasks \X ScheduledPriorities] : n \in 0..MaxTasks}

\* The scheduler after these calls on the one server GET.
RECURSIVE scheduleCalls(_, _, _)
scheduleCalls(st, cs, i) ==
  IF i > Len(cs) THEN st
  ELSE scheduleCalls(scheduleTask(st, cs[i][1], "GET", cs[i][2]), cs, i + 1)

InitPriority ==
  /\ Servers = <<"GET">>
  /\ erased = {}
  /\ Filters = "F0"
  /\ events = <<>>
  /\ timers = {}
  /\ coord = Idle
  /\ \E cs \in ScheduledCalls :
       LET st == scheduleCalls([task |-> [t \in TaskIds |-> NoneTask],
                                queue |-> <<>>, Tasks |-> << >>,
                                nextUID |-> 0], cs, 1)
       IN /\ task = st.task
          /\ queue = st.queue
          /\ Tasks = st.Tasks
          /\ nextUID = st.nextUID
          /\ calls = Len(cs)
  /\ node = <<>>
  /\ copy = <<>>
  /\ Query = NoQuery
  /\ SeriesItem = NoSeriesItem
  /\ Request = NoRequest

NextPriority == Worker \/ Reprioritise

SpecPriority == InitPriority /\ [][NextPriority]_vars

\* ----------------------------- the public flag setters of ctkAbstractTask
\* A caller writes the property "running" of a registered task
\* (Q_PROPERTY(bool running READ isRunning WRITE setIsRunning)).
SetIsRunning(t, running) ==
  /\ task[t].pc # "none"
  /\ task' = [task EXCEPT ![t] = setIsRunning(task[t], running)]
  /\ UNCHANGED <<SeriesItem, Request, node, copy, Query, Servers, erased, Tasks, Filters, queue, events,
                 timers, coord, nextUID, calls>>

\* A caller writes the property "finished" of a registered task
\* (Q_PROPERTY(bool finished READ isFinished WRITE setIsFinished)).
SetIsFinished(t, finished) ==
  /\ task[t].pc # "none"
  /\ task' = [task EXCEPT ![t] = setIsFinished(task[t], finished)]
  /\ UNCHANGED <<SeriesItem, Request, node, copy, Query, Servers, erased, Tasks, Filters, queue, events,
                 timers, coord, nextUID, calls>>

Setters ==
  \E t \in TaskIds, b \in BOOLEAN : SetIsRunning(t, b) \/ SetIsFinished(t, b)

\* One or two scheduled tasks, run by the worker, with the setters called at
\* any moment.
InitFlags == InitPriority /\ calls \in 1..2

NextFlags == Worker \/ Setters

SpecFlags == InitFlags /\ [][NextFlags]_vars

\* A caller writes the property "stop" of a registered task
\* (Q_PROPERTY(bool stop READ isStopped WRITE setStop)).
SetStop(t, stop) ==
  /\ task[t].pc # "none"
  /\ task' = [task EXCEPT ![t] = setStop(task[t], stop)]
  /\ UNCHANGED <<SeriesItem, Request, node, copy, Query, Servers, erased, Tasks,
                 Filters, queue, events, timers, coord, nextUID, calls>>

\* One or two scheduled tasks, run by the worker, with setStop called at any
\* moment with either value.
NextStop == Worker \/ \E t \in TaskIds, stop \in BOOLEAN : SetStop(t, stop)

SpecStop == InitFlags /\ [][NextStop]_vars

\* ------------------------------- deletion of tasks that may still be running
\* ctkDICOMTaskPool::waitForFinish(msecTimeout) with msecTimeout > 0, entry:
\* the timer is started and the loop is entered.
WaitForFinishTimeout ==
  /\ coord.pc = "loop"
  /\ coord' = [pc |-> "timedLoop", then |-> Servers, destroys |-> {}]
  /\ UNCHANGED <<SeriesItem, Request, node, copy, Query, Servers, erased, Tasks, Filters, task, queue, events,
                 timers, nextUID, calls>>

\* while (d->Tasks.count() > 0 && timer.elapsed() <= msecTimeout * 5): each
\* turn runs processEvents() and waitForDone(msecTimeout), which returns after
\* msecTimeout whatever the workers do; the loop ends when the registry is empty
\* or the time is up.
TimedLoopEnds ==
  /\ coord.pc = "timedLoop"
  /\ coord' = [coord EXCEPT !.pc = "processEvents"]
  /\ UNCHANGED <<SeriesItem, Request, node, copy, Query, Servers, erased, Tasks, Filters, task, queue, events,
                 timers, nextUID, calls>>

\* The loop body of ctkDICOMPoolManager::stopAllTasksNotStarted (notStarted)
\* and of ctkDICOMPoolManager::deleteAllTasks: setStop(true); deleteTask(uid)
RECURSIVE PoolManager_deleteEach(_, _, _)
PoolManager_deleteEach(st, ts, notStarted) ==
  IF ts = {} THEN st
  ELSE LET t == CHOOSE x \in ts : TRUE
           skip == notStarted /\ (st.task[t].Running \/ st.task[t].Finished)
           stopped == [st EXCEPT !.task[t] = setStop(st.task[t], TRUE)]
       IN PoolManager_deleteEach(
            IF skip THEN st ELSE deleteTask(stopped, st.task[t].TaskUID),
            ts \ {t}, notStarted)

\* ctkDICOMPoolManager::stopAllTasksNotStarted
stopAllTasksNotStarted(st) ==
  PoolManager_deleteEach(clear(st), Range(st.Tasks), TRUE)

\* ctkDICOMPoolManager::deleteAllTasks
PoolManager_deleteAllTasks(st) ==
  PoolManager_deleteEach(clear(st), Range(st.Tasks), FALSE)

StopAllTasksNotStarted ==
  /\ coord.pc = "loop"
  /\ Range(Tasks) # {}
  /\ Commit(stopAllTasksNotStarted(State))
  /\ UNCHANGED <<SeriesItem, Request, node, copy, Query, Servers, erased, Filters, events, timers, coord, calls>>

PoolManagerDeleteAllTasks ==
  /\ coord.pc = "loop"
  /\ Range(Tasks) # {}
  /\ Commit(PoolManager_deleteAllTasks(State))
  /\ UNCHANGED <<SeriesItem, Request, node, copy, Query, Servers, erased, Filters, events, timers, coord, calls>>

Delete_ops ==
  \/ WaitForFinish \/ WaitForDoneReturns \/ WaitForFinishDeletes
  \/ WaitForFinishReturns
  \/ WaitForFinishTimeout \/ TimedLoopEnds
  \/ StopAllTasksNotStarted \/ PoolManagerDeleteAllTasks

NextDelete == Worker \/ Slots \/ Delete_ops

SpecDelete == InitFlags /\ [][NextDelete]_vars

\* ctkDICOMTaskPool::stopAllTasksNotStarted : clear the queue, then
\* setStop(true) on every registered task that is neither running nor finished
TaskPool_stopAllTasksNotStarted(st) ==
  LET c == clear(st)
  IN [c EXCEPT !.task = [t \in TaskIds |->
        IF t \in Range(c.Tasks) /\ ~(c.task[t].Running \/ c.task[t].Finished)
        THEN setStop(c.task[t], TRUE) ELSE c.task[t]]]

TaskPoolStopAllTasksNotStarted ==
  /\ coord.pc = "loop"
  /\ Range(Tasks) # {}
  /\ Commit(TaskPool_stopAllTasksNotStarted(State))
  /\ UNCHANGED <<SeriesItem, Request, node, copy, Query, Servers, erased,
                 Filters, events, timers, coord, calls>>

\* One or two scheduled tasks, the worker and the slots, with
\* stopAllTasksNotStarted of either scheduler called at any moment.
NextNotStarted ==
  \/ Worker \/ Slots
  \/ TaskPoolStopAllTasksNotStarted \/ StopAllTasksNotStarted

SpecNotStarted == InitFlags /\ [][NextNotStarted]_vars

\* -------------------------------- how often a task object is started
\* The scheduler after these calls on the servers of d->Servers.
RECURSIVE scheduleCallsOnServers(_, _, _)
scheduleCallsOnServers(st, cs, i) ==
  IF i > Len(cs) THEN st
  ELSE scheduleCallsOnServers(scheduleOnServers(st, cs[i][1], cs[i][2], 1),
                              cs, i + 1)

\* One or two operations called on a C-GET server or on a C-MOVE server with
\* a proxy.
InitRun ==
  /\ Servers \in {<<"GET">>, <<"MOVEP">>}
  /\ erased = {}
  /\ Filters = "F0"
  /\ events = <<>>
  /\ timers = {}
  /\ coord = Idle
  /\ \E cs \in ScheduledCalls :
       LET st == scheduleCallsOnServers([task |-> [t \in TaskIds |-> NoneTask],
                                         queue |-> <<>>, Tasks |-> << >>,
                                         nextUID |-> 0], cs, 1)
       IN /\ Len(cs) \in 1..2
          /\ task = st.task
          /\ queue = st.queue
          /\ Tasks = st.Tasks
          /\ nextUID = st.nextUID
          /\ calls = Len(cs)
  /\ node = <<>>
  /\ copy = <<>>
  /\ Query = NoQuery
  /\ SeriesItem = NoSeriesItem
  /\ Request = NoRequest

\* The worker, the slots (retry, chaining) and the re-prioritisations.
NextRun == Worker \/ Slots \/ Reprioritise

SpecRun == InitRun /\ [][NextRun]_vars

\* ------------------------------------------ ctkDICOMPoolManager: stop, retry
\* ctkDICOMPoolManager::stopTasks, the test under which a task is skipped (the
\* SOP instance is compared for retrieve tasks only)
PoolManager_stopTasksSkips(r, study, series, sop) ==
  \/ r.Running
  \/ r.Finished
  \/ r.studyInstanceUID # study
  \/ (r.seriesInstanceUID # "" /\ series # "" /\ r.seriesInstanceUID # series)
  \/ (r.kind = "retrieve" /\ r.sopInstanceUID # "" /\ sop # ""
        /\ r.sopInstanceUID # sop)

\* ctkDICOMPoolManager::stopTasks : setStop(true) on every task not skipped;
\* the task is deleted only when tryTake found it in the queue
RECURSIVE PoolManager_stopTasks(_, _, _, _, _)
PoolManager_stopTasks(st, ts, study, series, sop) ==
  IF ts = {} THEN st
  ELSE LET t == CHOOSE x \in ts : TRUE
           stopped == [st EXCEPT !.task[t] = setStop(st.task[t], TRUE)]
           taken == [tryTake(stopped, t) EXCEPT !.task[t].pc = "dropped"]
       IN PoolManager_stopTasks(
            IF PoolManager_stopTasksSkips(st.task[t], study, series, sop) THEN st
            ELSE IF t \in Queued(st.queue)
                 THEN deleteTask(taken, st.task[t].TaskUID)
                 ELSE stopped,
            ts \ {t}, study, series, sop)

PoolManagerStopTasks(study, series, sop) ==
  /\ coord.pc = "loop"
  /\ Range(Tasks) # {}
  /\ Commit(PoolManager_stopTasks(State, Range(Tasks), study, series, sop))
  /\ UNCHANGED <<SeriesItem, Request, node, copy, Query, Servers, erased, Filters, events, timers, coord, calls>>

\* ctkDICOMPoolManager::taskFinished : the results are copied to the Indexer,
\* or progressTaskDetail(nullptr) is emitted when there are none; deleteTask
PoolManagerTaskFinished(t) ==
  /\ Dispatching
  /\ events # <<>> /\ Head(events) = [sig |-> "finished", t |-> t]
  /\ events' = Tail(events)
  /\ IF ~Delivered(t)
     THEN UNCHANGED <<Tasks, task, queue, nextUID>>
     ELSE LET st == [State EXCEPT !.task[t].handled = "finished"]
          IN Commit(deleteTask(IF task[t].results > 0
                               THEN insertTaskResultsList(st, t)
                               ELSE emitNullProgress(st, t),
                               task[t].TaskUID))
  /\ UNCHANGED <<SeriesItem, Request, node, copy, Query, Servers, erased, Filters, timers, coord, calls>>

\* ctkDICOMPoolManager::taskCanceled: whether a new attempt is made
PoolManager_ShouldRetry(r) == r.NumberOfRetry < MaximumNumberOfRetry

\* ctkDICOMPoolManager::taskCanceled : a new task with the same parameters and
\* a single-shot timer while numberOfRetry allows it; deleteTask(taskUID)
PoolManagerTaskCanceled(t) ==
  /\ Dispatching
  /\ events # <<>> /\ Head(events) = [sig |-> "canceled", t |-> t]
  /\ events' = Tail(events)
  /\ IF ~Delivered(t)
     THEN UNCHANGED <<Tasks, task, queue, nextUID, timers>>
     ELSE LET r  == task[t]
              st == [State EXCEPT !.task[t].handled = "canceled"]
              n  == NextTask(task)
          IN IF PoolManager_ShouldRetry(r)
             THEN /\ FreeTasks(task) >= 1
                  /\ timers' = timers \cup {n}
                  /\ Commit(deleteTask(
                       [st EXCEPT !.task[n] =
                          IF r.kind = "query" THEN RetryQueryTask(r, t)
                                              ELSE RetryRetrieveTask(r, t)],
                       r.TaskUID))
             ELSE /\ timers' = timers
                  /\ Commit(deleteTask(st, r.TaskUID))
  /\ UNCHANGED <<SeriesItem, Request, node, copy, Query, Servers, erased, Filters, coord, calls>>

\* ctkDICOMPoolManager::taskRetry : connect, new UID, register, start at
\* LowPriority, as ctkDICOMTaskPool::taskRetry does
PoolManagerTaskRetry(n) == taskRetry(n)

PoolManagerSlots ==
  \E t \in TaskIds :
    \/ PoolManagerTaskFinished(t) \/ PoolManagerTaskCanceled(t)
    \/ PoolManagerTaskRetry(t)

NextManager ==
  \/ Worker
  \/ PoolManagerSlots
  \/ \E a \in StopTriples : PoolManagerStopTasks(a[1], a[2], a[3])

SpecManager == InitFlags /\ [][NextManager]_vars

Init ==
  /\ Servers = <<>>
  /\ erased = {}
  /\ Tasks = << >>
  /\ Filters = "F0"
  /\ task = [t \in TaskIds |-> NoneTask]
  /\ queue = <<>>
  /\ events = <<>>
  /\ timers = {}
  /\ coord = Idle
  /\ nextUID = 0
  /\ calls = 0
  /\ node = <<>>
  /\ copy = <<>>
  /\ Query = NoQuery
  /\ SeriesItem = NoSeriesItem
  /\ Request = NoRequest

Next ==
  \/ queryPatients \/ queryStudies \/ querySeries \/ queryInstances
  \/ retrieveStudy \/ retrieveSeries \/ retrieveSOPInstance
  \/ setFilters
  \/ Worker
  \/ StopAllTasks \/ StopTasks_ops \/ WaitForFinish \/ Servers_ops
  \/ WaitForDoneReturns \/ WaitForFinishDeletes \/ WaitForFinishReturns
  \/ Slots

Spec == Init /\ [][Next]_vars

\* ------------------------------------- operations that nobody stops
\* A scheduler with one server and nothing scheduled yet.
InitProgress ==
  /\ Servers \in {<<s>> : s \in AddableServers}
  /\ erased = {}
  /\ Tasks = << >>
  /\ Filters = "F0"
  /\ task = [t \in TaskIds |-> NoneTask]
  /\ queue = <<>>
  /\ events = <<>>
  /\ timers = {}
  /\ coord = Idle
  /\ nextUID = 0
  /\ calls = 0
  /\ node = <<>>
  /\ copy = <<>>
  /\ Query = NoQuery
  /\ SeriesItem = NoSeriesItem
  /\ Request = NoRequest

\* The operations, the worker and the slots: no stop, no delete, no change of
\* the servers.
NextProgress ==
  \/ queryPatients \/ queryStudies \/ querySeries \/ queryInstances
  \/ retrieveStudy \/ retrieveSeries \/ retrieveSOPInstance
  \/ Worker
  \/ Slots

\* QThreadPool runs every queued runnable to its end, and the event loop of the
\* scheduler's thread delivers every posted signal and fires every timer.
SpecProgress ==
  InitProgress /\ [][NextProgress]_vars /\ WF_vars(Worker) /\ WF_vars(Slots)

\* ------------------------------------------ chaining after a C-MOVE retrieve
\* The servers a retrieve is called on: with and without a proxy, a proxy that
\* is disabled, and a proxy that has a proxy.
ChainServers == {"GET", "MOVE", "MOVEP", "MOVEO", "MOVE2"}

InitChain ==
  /\ Servers \in {<<s>> : s \in ChainServers}
  /\ erased = {}
  /\ Tasks = << >>
  /\ Filters = "F0"
  /\ task = [t \in TaskIds |-> NoneTask]
  /\ queue = <<>>
  /\ events = <<>>
  /\ timers = {}
  /\ coord = Idle
  /\ nextUID = 0
  /\ calls = 0
  /\ node = <<>>
  /\ copy = <<>>
  /\ Query = NoQuery
  /\ SeriesItem = NoSeriesItem
  /\ Request = NoRequest

NextChain ==
  \/ retrieveStudy \/ retrieveSeries \/ retrieveSOPInstance
  \/ Worker
  \/ Slots

SpecChain == InitChain /\ [][NextChain]_vars

\* ------------------------------------------------ the list of servers
\* The server objects handed to addServer while the list is edited.
HandedServers == {"GET", "GET2", "MOVE", "OFF"}

\* ctkDICOMTaskPool::addServer with up to MaxListedServers objects handed
\* over: stopAllTasks(); waitForFinish(); push_back
AddListedServer(s) ==
  /\ coord.pc = "loop"
  /\ Len(Servers) + Cardinality(erased) < MaxListedServers
  /\ s \notin erased /\ \A i \in 1..Len(Servers) : Servers[i] # s
  /\ LET st == stopAllTasks(State)
     IN /\ Commit(st)
        /\ coord' = [pc |-> waitForFinishEntry(st), then |-> Append(Servers, s),
                     destroys |-> {}]
  /\ UNCHANGED <<SeriesItem, Request, node, copy, Query, Servers, erased, Filters, events, timers, calls>>

\* The connection names removeServer is called with.
ConnectionNames == {ServerObjects[s].connectionName : s \in HandedServers}

NextServers ==
  \/ \E s \in HandedServers : AddListedServer(s)
  \/ \E name \in ConnectionNames : RemoveServer(name)
  \/ RemoveAllServers
  \/ WaitForFinishDeletes \/ WaitForFinishReturns

SpecServers == Init /\ [][NextServers]_vars

\* ------------------------------------------------ ctkDICOMSeriesItemWidget
MaxInstances == 3        \* instances of the series in the database
MaxThumbnailCalls == 2   \* calls of createThumbnail on the widget

\* The SOP instance UIDs of the series, in the order the database lists them.
InstanceUIDs == <<"I1", "I2", "I3", "I4", "I5", "I6", "I7", "I8", "I9">>

\* DicomDatabase->instanceValue(instance, "0020,0013"): "" when the tag is
\* missing
InstanceNumberStrings == {"", "1", "2"}

\* QString::toInt
toInt(str) ==
  CASE str = "1" -> 1 [] str = "2" -> 2 [] str = "3" -> 3 [] str = "4" -> 4
    [] str = "5" -> 5 [] str = "6" -> 6 [] str = "7" -> 7 [] str = "8" -> 8
    [] str = "9" -> 9 [] OTHER -> 0

\* A file of the database: a "server://" URL while the instance is still on
\* the server, the path of the local copy afterwards.
File(uid, onServer) == [server |-> onServer, of |-> uid]

\* file.contains("server://")
containsServer(file) == file.server

\* The database rows of a series with the given InstanceNumbers, all fetched.
RowsNumbered(numbers) ==
  [i \in 1..Len(numbers) |->
     [uid |-> InstanceUIDs[i], instanceNumber |-> numbers[i],
      file |-> File(InstanceUIDs[i], FALSE)]]

\* The database rows of the series a widget is made for: up to MaxInstances
\* instances with or without InstanceNumber, fetched or not, and the series
\* of nine instances numbered 1..9, stored in ascending or descending order.
SeriesRows ==
  UNION {{[i \in 1..n |->
             [uid |-> InstanceUIDs[i], instanceNumber |-> f[i][1],
              file |-> File(InstanceUIDs[i], f[i][2])]] :
            f \in [1..n -> InstanceNumberStrings \X BOOLEAN]} :
         n \in 0..MaxInstances}
  \cup {RowsNumbered(<<"1", "2", "3", "4", "5", "6", "7", "8", "9">>),
        RowsNumbered(<<"9", "8", "7", "6", "5", "4", "3", "2", "1">>)}

\* DicomDatabase->instancesForSeries, filesForSeries
instancesForSeries(rows) == [i \in 1..Len(rows) |-> rows[i].uid]
filesForSeries(rows) == [i \in 1..Len(rows) |-> rows[i].file]

\* DicomDatabase->instanceValue(instance, "0020,0013"), fileForInstance,
\* instanceForFile
RowOf(rows, uid) == rows[CHOOSE i \in 1..Len(rows) : rows[i].uid = uid]
instanceValue(rows, uid) == RowOf(rows, uid).instanceNumber
fileForInstance(rows, uid) == RowOf(rows, uid).file
instanceForFile(rows, file) == file.of

\* foreach (instanceItem, instancesList) DICOMInstances[instanceNumber] =
\* instanceItem : a QMap<int, QString>, a later instance replaces an earlier one
\* of the same number
RECURSIVE insertInstances(_, _, _)
insertInstances(rows, instancesList, DICOMInstances) ==
  IF instancesList = <<>> THEN DICOMInstances
  ELSE LET instanceItem == Head(instancesList)
           instanceNumberString == instanceValue(rows, instanceItem)
           instanceNumber == IF instanceNumberString # ""
                             THEN toInt(instanceNumberString) ELSE 0
       IN insertInstances(rows, Tail(instancesList),
            [k \in DOMAIN DICOMInstances \cup {instanceNumber} |->
               IF k = instanceNumber THEN instanceItem ELSE DICOMInstances[k]])

\* QMap::keys() followed by std::sort: the keys in ascending order
RECURSIVE sortedKeys(_)
sortedKeys(ks) ==
  IF ks = {} THEN <<>>
  ELSE LET least == CHOOSE k \in ks : \A other \in ks : k <= other
       IN <<least>> \o sortedKeys(ks \ {least})

\* ctkDICOMSeriesItemWidgetPrivate::getDICOMCenterFrameFromInstances
getDICOMCenterFrameFromInstances(rows, instancesList) ==
  IF Len(instancesList) = 0 THEN ""
  ELSE LET DICOMInstances == insertInstances(rows, instancesList, << >>)
           keys == sortedKeys(DOMAIN DICOMInstances)
           centerFrameIndex == Len(keys) \div 2
       IN IF Cardinality(DOMAIN DICOMInstances) = 1 THEN instancesList[1]
          ELSE IF Len(keys) <= centerFrameIndex THEN instancesList[1]
          ELSE DICOMInstances[keys[centerFrameIndex + 1]]

\* ctkDICOMSeriesItemWidgetPrivate constructor for a series with these rows.
\* centerFrame and last are history: what getDICOMCenterFrameFromInstances
\* returned, and what the last createThumbnail call found and scheduled.
NewSeriesItem(rows) ==
  [rows |-> rows, IsCloud |-> FALSE, CentralFrameSOPInstanceUID |-> "",
   centerFrame |-> "none",
   last |-> [sop |-> FALSE, series |-> FALSE, fileOnServer |-> FALSE,
             onServer |-> 0, frames |-> 0]]

\* The taskResults createThumbnail is called with: nullptr, or a result of
\* the indexer, of an instances query or of a retrieve.
ThumbnailTaskResults ==
  {<<>>} \cup
  {<<[TypeOfTask |-> ty, SOPInstanceUID |-> sop]>> :
     ty \in {"FileIndexing", "QueryInstances", "RetrieveSOPInstance"},
     sop \in {"", "I1"}}

\* the substitution of the first fetched file for a central frame that is
\* still on the server
RECURSIVE firstLocalFile(_)
firstLocalFile(filesList) ==
  IF filesList = <<>> THEN <<>>
  ELSE IF containsServer(Head(filesList)) THEN firstLocalFile(Tail(filesList))
  ELSE <<Head(filesList)>>

\* createThumbnail up to the scheduling: IsCloud, the central frame
chooseCentralFrame(w) ==
  LET instancesList == instancesForSeries(w.rows)
      numberOfFrames == Len(instancesList)
      filesList == filesForSeries(w.rows)
      numberOfInstancesOnServer ==
        Cardinality({i \in 1..Len(filesList) : containsServer(filesList[i])})
      w1 == [w EXCEPT !.IsCloud = @ \/ (numberOfFrames > 0
                                         /\ numberOfInstancesOnServer > 0)]
  IN IF w1.CentralFrameSOPInstanceUID # "" THEN w1
     ELSE LET center == getDICOMCenterFrameFromInstances(w.rows, instancesList)
              file == fileForInstance(w.rows, center)
              local == firstLocalFile(filesList)
          IN [w1 EXCEPT
                !.centerFrame = center,
                !.CentralFrameSOPInstanceUID =
                  IF containsServer(file)
                     /\ numberOfInstancesOnServer < numberOfFrames
                     /\ local # <<>>
                  THEN instanceForFile(w.rows, local[1])
                  ELSE center]

\* if (this->IsCloud && (typeOfTask == FileIndexing || typeOfTask ==
\* QueryInstances)) under getNumberOfQueryRetrieveServers() > 0
SchedulesRetrieve(w, typeOfTask) ==
  /\ getNumberOfQueryRetrieveServers > 0
  /\ w.IsCloud
  /\ typeOfTask \in {"FileIndexing", "QueryInstances"}

\* ctkDICOMSeriesItemWidgetPrivate::createThumbnail(taskResults). The series
\* is ST1 / SE1. IsVisible, IsLoaded and the drawing are not kept. The default
\* priority of retrieveSeries is the one of its declaration.
CreateThumbnail(taskResults) ==
  /\ coord.pc = "loop"
  /\ SeriesItem # NoSeriesItem
  /\ calls < MaxThumbnailCalls
  /\ calls' = calls + 1
  /\ LET typeOfTask == IF taskResults = <<>> THEN "FileIndexing"
                       ELSE taskResults[1].TypeOfTask
         numberOfFrames == Len(SeriesItem.rows)
         filesList == filesForSeries(SeriesItem.rows)
         onServer == Cardinality({i \in 1..Len(filesList) :
                                    containsServer(filesList[i])})
     IN IF numberOfFrames = 0
        THEN /\ SeriesItem' = [SeriesItem EXCEPT
                                 !.last = [sop |-> FALSE, series |-> FALSE,
                                           fileOnServer |-> FALSE,
                                           onServer |-> 0, frames |-> 0]]
             /\ UNCHANGED <<Tasks, task, queue, nextUID>>
        ELSE LET w == chooseCentralFrame(SeriesItem)
                 sop == SchedulesRetrieve(w, typeOfTask)
                 series == sop /\ numberOfFrames > 1 /\ onServer > 0
                 sopTask == [NewRetrieveTask EXCEPT
                               !.level = "Instances", !.studyInstanceUID = "ST1",
                               !.seriesInstanceUID = "SE1",
                               !.sopInstanceUID = w.CentralFrameSOPInstanceUID]
                 seriesTask == [NewRetrieveTask EXCEPT
                                  !.level = "Series", !.studyInstanceUID = "ST1",
                                  !.seriesInstanceUID = "SE1"]
                 st1 == IF sop THEN scheduleOnServers(State, sopTask, "Normal", 1)
                        ELSE State
             IN /\ FreeTasks(task) >=
                     ((IF sop THEN 1 ELSE 0) + (IF series THEN 1 ELSE 0))
                       * getNumberOfQueryRetrieveServers
                /\ SeriesItem' =
                     [w EXCEPT !.last =
                        [sop |-> sop, series |-> series,
                         fileOnServer |-> containsServer(
                           fileForInstance(w.rows, w.CentralFrameSOPInstanceUID)),
                         onServer |-> onServer, frames |-> numberOfFrames]]
                /\ \E priority \in Priorities :
                     Commit(IF series
                            THEN scheduleOnServers(st1, seriesTask, priority, 1)
                            ELSE st1)
  /\ UNCHANGED <<Request, node, copy, Query, Servers, erased, Filters, events,
                 timers, coord>>

\* The indexer has stored the retrieved file of an instance: its database
\* row names the local file.
FileRetrieved(i) ==
  /\ SeriesItem # NoSeriesItem
  /\ i \in 1..Len(SeriesItem.rows)
  /\ containsServer(SeriesItem.rows[i].file)
  /\ SeriesItem' = [SeriesItem EXCEPT !.rows[i].file.server = FALSE]
  /\ UNCHANGED <<Request, node, copy, Query, Servers, erased, Tasks, Filters,
                 task, queue, events, timers, coord, nextUID, calls>>

InitSeriesItem ==
  /\ Servers \in {<<>>, <<"GET">>}
  /\ erased = {}
  /\ Tasks = << >>
  /\ Filters = "F0"
  /\ task = [t \in TaskIds |-> NoneTask]
  /\ queue = <<>>
  /\ events = <<>>
  /\ timers = {}
  /\ coord = Idle
  /\ nextUID = 0
  /\ calls = 0
  /\ node = <<>>
  /\ copy = <<>>
  /\ Query = NoQuery
  /\ SeriesItem \in {NewSeriesItem(rows) : rows \in SeriesRows}
  /\ Request = NoRequest

NextSeriesItem ==
  \/ \E taskResults \in ThumbnailTaskResults : CreateThumbnail(taskResults)
  \/ \E i \in 1..MaxInstances : FileRetrieved(i)

SpecSeriesItem == InitSeriesItem /\ [][NextSeriesItem]_vars

\* ------------------------------------- ctkDICOMQuery: the C-FIND request
MaxModalities == 2       \* modalities in the Modalities filter

\* A QString is the sequence of its parts: "" is <<>>, and "*DOE*" is
\* <<"*", "DOE", "*">>.
QStr(part) == <<part>>
Backslash == "\\"

\* QVariant of a QString, of a QStringList
VString(str) == [type |-> "String", value |-> str]
VStringList(list) == [type |-> "StringList", value |-> list]

\* QVariant::toString: a QString as it is, a QStringList of exactly one item
\* as that item, any other QStringList as the empty string
toString(v) ==
  IF v.type = "String" THEN v.value
  ELSE IF Len(v.value) = 1 THEN v.value[1] ELSE <<>>

\* QVariant::toStringList
toStringList(v) == IF v.type = "String" THEN <<v.value>> ELSE v.value

\* QString::chop(1)
chop(str) == IF str = <<>> THEN <<>> ELSE SubSeq(str, 1, Len(str) - 1)

\* foreach (modality, list) modalitySearch += modality + QString("\\")
RECURSIVE appendModalities(_, _)
appendModalities(modalitySearch, list) ==
  IF list = <<>> THEN modalitySearch
  ELSE appendModalities(modalitySearch \o Head(list) \o <<Backslash>>, Tail(list))

\* The tags queryStudies asks for.
StudyTags ==
  {"PatientID", "PatientName", "PatientBirthDate", "StudyID",
   "StudyInstanceUID", "StudyDescription", "StudyDate", "StudyTime",
   "ModalitiesInStudy", "AccessionNumber", "NumberOfStudyRelatedSeries"}

\* d->Query->clear() and the insertEmptyElement calls of queryStudies
EmptyStudiesRequest == [tag \in StudyTags |-> <<>>]

\* one pass of the loop of applyFilters over a key of d->Filters, in the
\* order of QMap::keys()
applyFilter(req, Flt, key) ==
  LET str == toString(Flt[key])
      wildcard == <<"*">> \o str \o <<"*">>
  IN IF key = "Name" /\ str # <<>>
       THEN [req EXCEPT !.Query["PatientName"] = wildcard]
     ELSE IF key = "Study" /\ str # <<>>
       THEN [req EXCEPT !.Query["StudyDescription"] = wildcard]
     ELSE IF key = "ID" /\ str # <<>>
       THEN [req EXCEPT !.Query["PatientID"] = wildcard]
     ELSE IF key = "AccessionNumber" /\ str # <<>>
       THEN [req EXCEPT !.Query["AccessionNumber"] = wildcard]
     ELSE IF key = "Modalities" /\ str # <<>>
       THEN [req EXCEPT !.Query["ModalitiesInStudy"] =
               chop(appendModalities(<<>>, toStringList(Flt[key])))]
     ELSE IF key = "Series" /\ str # <<>>
       THEN [req EXCEPT !.seriesDescription = wildcard]
     ELSE req

\* The keys of a QMap<QString, QVariant> in the order of QMap::keys().
KeyOrder == <<"EndDate", "ID", "Modalities", "Name", "Series", "StartDate",
              "Study">>

RECURSIVE applyFilterKeys(_, _, _)
applyFilterKeys(req, Flt, i) ==
  IF i > Len(KeyOrder) THEN req
  ELSE applyFilterKeys(IF KeyOrder[i] \in DOMAIN Flt
                       THEN applyFilter(req, Flt, KeyOrder[i])
                       ELSE req,
                       Flt, i + 1)

\* ctkDICOMQuery::applyFilters
applyFilters(req) ==
  LET r == applyFilterKeys([req EXCEPT !.seriesDescription = <<>>],
                           req.Filters, 1)
  IN IF {"StartDate", "EndDate"} \subseteq DOMAIN req.Filters
     THEN [r EXCEPT !.Query["StudyDate"] =
             toString(req.Filters["StartDate"]) \o <<"-">>
               \o toString(req.Filters["EndDate"])]
     ELSE r

\* ctkDICOMQueryPrivate constructor: no filters, an empty request. built
\* is history: queryStudies has made the request from the present filters.
NewRequest ==
  [Filters |-> << >>, Query |-> << >>, seriesDescription |-> <<>>,
   built |-> FALSE]

\* The values of the filters; Absent marks a key the map does not hold.
Absent == [type |-> "Invalid", value |-> <<>>]
ModalityLists ==
  UNION {[1..n -> {QStr("CT"), QStr("MR")}] : n \in 0..MaxModalities}
FilterChoices ==
  [Name : {Absent} \cup {VString(<<>>), VString(QStr("DOE"))},
   Modalities : {Absent} \cup {VStringList(l) : l \in ModalityLists},
   Series : {Absent, VString(QStr("T1"))},
   StartDate : {Absent, VString(QStr("20240101"))},
   EndDate : {Absent, VString(QStr("20240131"))}]
FilterMaps ==
  {[key \in {k \in DOMAIN c : c[k] # Absent} |-> c[key]] :
     c \in FilterChoices}

\* ctkDICOMQuery::setFilters
SetQueryFilters(filters) ==
  /\ Request # NoRequest
  /\ Request.Filters # filters
  /\ Request' = [Request EXCEPT !.Filters = filters, !.built = FALSE]
  /\ UNCHANGED <<SeriesItem, node, copy, Query, Servers, erased, Tasks,
                 Filters, task, queue, events, timers, coord, nextUID, calls>>

\* ctkDICOMQuery::queryStudies up to the request dataset: clear, the empty
\* elements, applyFilters
QueryStudiesRequest ==
  /\ Request # NoRequest
  /\ ~ Request.built
  /\ Request' = [applyFilters([Request EXCEPT !.Query = EmptyStudiesRequest])
                   EXCEPT !.built = TRUE]
  /\ UNCHANGED <<SeriesItem, node, copy, Query, Servers, erased, Tasks,
                 Filters, task, queue, events, timers, coord, nextUID, calls>>

InitRequest ==
  /\ Servers = <<>>
  /\ erased = {}
  /\ Tasks = << >>
  /\ Filters = "F0"
  /\ task = [t \in TaskIds |-> NoneTask]
  /\ queue = <<>>
  /\ events = <<>>
  /\ timers = {}
  /\ coord = Idle
  /\ nextUID = 0
  /\ calls = 0
  /\ node = <<>>
  /\ copy = <<>>
  /\ Query = NoQuery
  /\ SeriesItem = NoSeriesItem
  /\ Request = NewRequest

NextRequest ==
  \/ \E filters \in FilterMaps : SetQueryFilters(filters)
  \/ QueryStudiesRequest

SpecRequest == InitRequest /\ [][NextRequest]_vars

\* -------------------------------------------------------------------- claims
Terminal == {"finished", "canceled"}
Count(e, S) == Cardinality({i \in 1..Len(e) : e[i] \in S})
HasReturned(t) == task[t].pc \in {"returned", "done"}
Registered(t) == t \in Range(Tasks)
Live(t) == task[t].pc \in ({"queued"} \cup ActivePCs)
Children(t) == {u \in TaskIds : task[u].kind # "none" /\ task[u].parent = t}

\* C1: every run() that has returned emitted exactly one of finished /
\* canceled, a run() still executing has emitted none, started is emitted at
\* most once and never after the terminal signal.
C1_RunEmitsOneTerminalSignal ==
  \A t \in TaskIds :
    LET e == task[t].emitted
    IN /\ Count(e, {"started"}) <= 1
       /\ Count(e, Terminal) <= 1
       /\ HasReturned(t) => Count(e, Terminal) = 1
       /\ ~HasReturned(t) => Count(e, Terminal) = 0
       /\ \A i, j \in 1..Len(e) : (i < j /\ e[i] \in Terminal) => e[j] # "started"

\* C1 witness: the three paths of run() have been taken: Stop seen at entry, a
\* driver failure and a clean completion.
C1_Witness ==
  \E t1, t2, t3 \in TaskIds :
    /\ HasReturned(t1) /\ task[t1].emitted = <<"canceled">>
    /\ HasReturned(t2) /\ task[t2].emitted = <<"started", "canceled">>
    /\ HasReturned(t3) /\ task[t3].emitted = <<"started", "finished">>

\* C2: the step in which taskCanceled handles a task whose Stop flag is set
\* creates no task and arms no retry timer, whatever numberOfRetry is: it only
\* removes the task from the registry.
C2_StoppedTaskNeverRetried ==
  [][\A t \in TaskIds :
       (task[t].handled = "" /\ task'[t].handled = "canceled" /\ task[t].Stop)
       => /\ timers' = timers
          /\ Allocated(task') = Allocated(task)
          /\ queue' = queue
          /\ DOMAIN Tasks' = DOMAIN Tasks \ {task[t].TaskUID}
          /\ task[t].TaskUID \in DOMAIN Tasks]_vars

\* C2 witness: taskCanceled has handled a stopped task whose numberOfRetry
\* was still below MaximumNumberOfRetry.
C2_Witness ==
  \E t \in TaskIds :
    /\ task[t].handled = "canceled" /\ task[t].Stop
    /\ task[t].NumberOfRetry < MaximumNumberOfRetry
    /\ Children(t) = {}

\* C3: numberOfRetry grows by exactly 1 from a task to the task created after
\* it, and no task is created with numberOfRetry above MaximumNumberOfRetry.
C3_RetryCountBounded ==
  \A t \in TaskIds :
    task[t].kind # "none" =>
      /\ task[t].NumberOfRetry <= MaximumNumberOfRetry
      /\ task[t].parent # 0 =>
           task[t].NumberOfRetry = task[task[t].parent].NumberOfRetry + 1

\* C4: when waitForFinish(-1) has returned the registry is empty and the pool
\* is idle.
C4_WaitForFinishDrains ==
  coord.pc = "waitForFinishReturned" => (DOMAIN Tasks = {} /\ PoolIdle)

\* C5: no task whose server has been erased is registered, queued, held by a
\* worker or waiting in a retry timer.
C5_NoTaskOnErasedServer ==
  \A t \in TaskIds :
    task[t].server \in erased => ~(Registered(t) \/ Live(t) \/ t \in timers)

\* C6 as stated: a task stopped while its run() was executing ends with
\* canceled and is not retried.
C6_StoppedInRunEmitsCanceled ==
  \A t \in TaskIds :
    (task[t].stoppedAt # "" /\ HasReturned(t))
    => /\ task[t].emitted = <<"started", "canceled">>
       /\ Children(t) = {}

\* C6 amended: a task stopped while its run() was executing ends with canceled
\* when the stop arrives before the driver's last poll of the cancel flag and
\* with finished when it arrives after it; in both cases the scheduler creates
\* no retry and no chained task for it and hands none of its results on.
C6_StoppedInRunIsNeverContinued ==
  \A t \in TaskIds :
    (task[t].stoppedAt # "" /\ HasReturned(t))
    => /\ task[t].emitted =
            IF task[t].stoppedAt = "ret_true" THEN <<"started", "finished">>
                                              ELSE <<"started", "canceled">>
       /\ Children(t) = {}
       /\ ~task[t].indexed

\* C6 witness: both cases have been handled by the scheduler: a stop that the
\* driver saw, and a stop that arrived after the driver had returned true.
C6_Witness ==
  \E t \in TaskIds :
    /\ task[t].stoppedAt = "ret_true" /\ task[t].handled = "finished"
    /\ task[t].NumberOfRetry < MaximumNumberOfRetry

\* C7: a retry task has the server, level, patientID, study / series / SOP
\* instance UIDs and filters of the task it retries, and numberOfRetry + 1.
C7_RetryClonesTask ==
  \A t \in TaskIds :
    task[t].origin = "retry" =>
      LET p == task[task[t].parent]
      IN /\ task[t].kind = p.kind
         /\ task[t].server = p.server
         /\ task[t].level = p.level
         /\ task[t].patientID = p.patientID
         /\ task[t].studyInstanceUID = p.studyInstanceUID
         /\ task[t].seriesInstanceUID = p.seriesInstanceUID
         /\ task[t].sopInstanceUID = p.sopInstanceUID
         /\ task[t].filters = p.filters
         /\ task[t].NumberOfRetry = p.NumberOfRetry + 1

\* C8: every key of the registry is the taskUID of the task it maps to, no
\* task is registered under two keys, and a retry task that taskRetry has
\* enqueued has a taskUID different from the canceled task's, which is no
\* longer a key.
C8_RegistryKeysAreTaskUIDs ==
  /\ \A uid \in DOMAIN Tasks : task[Tasks[uid]].TaskUID = uid
  /\ \A u1, u2 \in DOMAIN Tasks : Tasks[u1] = Tasks[u2] => u1 = u2
  /\ \A t \in TaskIds :
       (task[t].origin = "retry" /\ task[t].pc # "created")
       => /\ task[t].TaskUID # task[task[t].parent].TaskUID
          /\ task[task[t].parent].TaskUID \notin DOMAIN Tasks

\* C8 witness: a retry task is registered and enqueued.
C8_Witness ==
  \E t \in TaskIds :
    task[t].origin = "retry" /\ Registered(t) /\ Live(t)

\* Nothing is left to do: the event loop is idle, no event, timer or indexer
\* notification is pending and the pool is idle.
Quiescent ==
  /\ coord.pc = "loop"
  /\ events = <<>>
  /\ timers = {}
  /\ PoolIdle
  /\ \A t \in TaskIds : task[t].indexed => task[t].notified

\* C9: once all scheduled operations have completed, the tasks taskFinished
\* has handled are out of the registry: the registry is empty.
C9_RegistryEmptiesWhenDone ==
  Quiescent => ~\E t \in TaskIds : task[t].handled = "finished" /\ Registered(t)

\* C10: for every task that finished with zero results and was handled by
\* taskFinished, progressTaskDetail(null) has been emitted exactly once.
C10_NullProgressOnZeroResults ==
  \A t \in TaskIds :
    (task[t].handled = "finished" /\ task[t].results = 0)
    => task[t].nullProgress = 1

\* C11: no result object the Indexer was handed by taskFinished is one of the
\* objects held by the task: each is a distinct copy.
C11_IndexerReceivesCopies ==
  \A t \in TaskIds :
    task[t].received \cap taskResultsList(task[t], t) = {}

\* C12: after deepCopy(r) the copy has the provenance of r: equal taskUID,
\* connectionName, patientID, studyInstanceUID, seriesInstanceUID,
\* sopInstanceUID and type, and equal filePath, copyFile and
\* overwriteExistingDataset.
C12_DeepCopyKeepsProvenance ==
  (copy # <<>> /\ node # <<>>) =>
    /\ copy[1].TaskUID = node[1].TaskUID
    /\ copy[1].ConnectionName = node[1].ConnectionName
    /\ copy[1].PatientID = node[1].PatientID
    /\ copy[1].StudyInstanceUID = node[1].StudyInstanceUID
    /\ copy[1].SeriesInstanceUID = node[1].SeriesInstanceUID
    /\ copy[1].SOPInstanceUID = node[1].SOPInstanceUID
    /\ copy[1].TypeOfTask = node[1].TypeOfTask
    /\ copy[1].FilePath = node[1].FilePath
    /\ copy[1].CopyFile = node[1].CopyFile
    /\ copy[1].OverwriteExistingDataset = node[1].OverwriteExistingDataset

\* C13: a query / retrieve operation registers and starts exactly one task per
\* listed server with queryRetrieveEnabled, each under a new taskUID of its
\* own, and leaves the registered tasks alone; with no enabled server it
\* creates no task and the registry is unchanged.
C13_OneTaskPerEnabledServer ==
  [][calls' = calls + 1 =>
      LET new == DOMAIN Tasks' \ DOMAIN Tasks
      IN /\ Cardinality(new) = getNumberOfQueryRetrieveServers
         /\ DOMAIN Tasks \subseteq DOMAIN Tasks'
         /\ \A u \in DOMAIN Tasks : Tasks'[u] = Tasks[u]
         /\ \A u \in new :
              /\ task[Tasks'[u]].kind = "none"
              /\ task'[Tasks'[u]].TaskUID = u
              /\ task'[Tasks'[u]].pc \in {"queued", "assigned"}
         /\ \A u, v \in new : u # v => Tasks'[u] # Tasks'[v]
         /\ \A s \in DOMAIN ServerObjects :
              Cardinality({u \in new : task'[Tasks'[u]].server = s})
                = Cardinality({i \in 1..Len(Servers) :
                                 /\ Servers[i] = s
                                 /\ ServerObjects[s].queryRetrieveEnabled})
         /\ (getNumberOfQueryRetrieveServers = 0 =>
               task' = task /\ Tasks' = Tasks /\ queue' = queue)
  ]_vars

\* An operation was called with a disabled and an enabled server listed.
C13_Witness ==
  /\ calls = 1
  /\ \E i \in 1..Len(Servers) : ~ServerObjects[Servers[i]].queryRetrieveEnabled
  /\ Cardinality(DOMAIN Tasks) = 1

\* C14: a task that stopAllTasks found scheduled but not yet picked up by a
\* worker (queued, or handed to a thread that has not entered run()) never
\* produces results, and nothing of it is handed to the Indexer.
C14_StoppedBeforePickupLeavesNoResults ==
  \A t \in TaskIds :
    task[t].stopAllAt # "" =>
      /\ task[t].results = 0
      /\ ~task[t].indexed
      /\ task[t].received = {}

\* A task stopped by stopAllTasks before run() was entered has gone through
\* run() and its canceled signal has been handled.
C14_Witness ==
  \E t \in TaskIds :
    /\ task[t].stopAllAt = "assigned"
    /\ task[t].emitted = <<"canceled">>
    /\ task[t].handled # ""

\* C15: stopTasks(study, series, sop) sets Stop on every registered task that is
\* not finished, running or not, and matches the triple (same study; same
\* series and same SOP instance, an empty UID on either side matching), and
\* leaves the Stop flag of every other task as it was.
C15_StopTasksStopsExactlyTheMatching ==
  [][\A a \in StopTriples :
       (queue' = queue /\ events' = events /\ StopTasks(a[1], a[2], a[3])) =>
         \A t \in TaskIds :
           IF /\ t \in Range(Tasks)
              /\ ~task[t].Finished
              /\ task[t].studyInstanceUID = a[1]
              /\ (task[t].seriesInstanceUID = a[2]
                   \/ task[t].seriesInstanceUID = "" \/ a[2] = "")
              /\ (task[t].sopInstanceUID = a[3]
                   \/ task[t].sopInstanceUID = "" \/ a[3] = "")
           THEN task'[t].Stop
           ELSE task'[t].Stop = task[t].Stop
  ]_vars

\* stopTasks has stopped a task that was inside run().
C15_Witness ==
  \E t \in TaskIds :
    /\ task[t].Stop /\ task[t].stopTasksAt \in RunPCs
    /\ task[t].Running /\ t \in Range(Tasks)

\* C16: a task that stopTasks stopped while it was still in the pool queue is
\* taken out of the queue, so no worker ever executes its run(): it is never
\* held by a thread and emits nothing.
C16_StoppedQueuedTaskNeverRuns ==
  \A t \in TaskIds :
    task[t].stopTasksAt = "queued" =>
      /\ task[t].pc \notin ActivePCs
      /\ task[t].emitted = <<>>
      /\ t \notin Queued(queue)

\* C17: once the driver has been canceled, at most one more sendFINDRequest is
\* issued before the function returns.
C17_AtMostOneFindAfterCancel == Query.findsAfterCancel <= 1

\* A cancel that arrived between the check of the flag and the C-FIND: the
\* request went out, and the function then returned false.
C17_Witness ==
  /\ Query.findsAfterCancel = 1
  /\ Query.pc = "returned" /\ Query.ret = "false"

\* The three query levels of the task driver.
LevelFunctions == {"queryStudies", "querySeries", "queryInstances"}

\* C18: at each of the three query levels, a sendFINDRequest that returned a
\* status that is not good makes the function release the association and
\* return false.
C18_FindFailureReleasesAndReturnsFalse ==
  (Query.fn \in LevelFunctions /\ Query.pc = "returned" /\ Query.findFailed) =>
    (Query.ret = "false" /\ ~Query.associated)

\* C19: at each of the three query levels, once the association has been
\* negotiated, the function does not return with the association still open.
C19_AssociationReleasedOnEveryReturn ==
  (Query.fn \in LevelFunctions /\ Query.pc = "returned" /\ Query.negotiated) =>
    ~Query.associated

\* C20: when findPresentationContextID has returned 0, no sendFINDRequest is
\* issued with that context and the function returns false.
C20_NoFindWithoutPresentationContext ==
  (Query.contextFound /\ Query.presentationContext = 0) =>
    /\ ~Query.sentWithContext0
    /\ (Query.pc = "returned" => Query.ret = "false")

\* The tasks created by a step.
Created == {n \in TaskIds : task[n].kind = "none" /\ task'[n].kind # "none"}

\* C21: when taskFinished handles a retrieve task that is not stopped, whose
\* server retrieves by C-MOVE and has a proxy with queryRetrieveEnabled, it
\* registers and starts exactly one new retrieve task against the proxy, with
\* the level and the study / series / SOP instance UIDs of the finished task,
\* its numberOfRetry + 1 and a taskUID never used before; in every other
\* case it creates no task and adds no registry entry.
C21_MoveRetrieveChainsOneGet ==
  [][\A t \in TaskIds :
       (task[t].handled = "" /\ task'[t].handled = "finished") =>
         IF /\ task[t].kind = "retrieve" /\ ~task[t].Stop
            /\ ServerObjects[task[t].server].retrieveProtocol = "CMOVE"
            /\ ServerObjects[task[t].server].proxyServer # ""
            /\ ServerObjects[ServerObjects[task[t].server].proxyServer]
                 .queryRetrieveEnabled
         THEN /\ Cardinality(Created) = 1
              /\ \A n \in Created :
                   /\ task'[n].kind = "retrieve"
                   /\ task'[n].server = ServerObjects[task[t].server].proxyServer
                   /\ task'[n].level = task[t].level
                   /\ task'[n].studyInstanceUID = task[t].studyInstanceUID
                   /\ task'[n].seriesInstanceUID = task[t].seriesInstanceUID
                   /\ task'[n].sopInstanceUID = task[t].sopInstanceUID
                   /\ task'[n].NumberOfRetry = task[t].NumberOfRetry + 1
                   /\ \A m \in TaskIds : task[m].TaskUID # task'[n].TaskUID
                   /\ task'[n].TaskUID \in DOMAIN Tasks' \ DOMAIN Tasks
                   /\ Tasks'[task'[n].TaskUID] = n
                   /\ DOMAIN Tasks' \ DOMAIN Tasks = {task'[n].TaskUID}
                   /\ task'[n].pc \in {"queued", "assigned"}
         ELSE /\ Created = {}
              /\ DOMAIN Tasks' \subseteq DOMAIN Tasks
  ]_vars

\* A task chained to the proxy of a C-MOVE server is registered.
C21_Witness ==
  \E t, n \in TaskIds :
    /\ task[t].handled = "finished" /\ task[t].server = "MOVEP"
    /\ task[n].origin = "chain" /\ task[n].parent = t
    /\ task[n].server = "PROXY" /\ n \in Range(Tasks)

\* C22: the task chained after a C-MOVE retrieve is started at Normal priority
\* when it retrieves at the Instances level, and at Low priority when it
\* retrieves at the Series or Studies level.
C22_ChainedPriorityFollowsLevel ==
  \A n \in TaskIds :
    task[n].origin = "chain" =>
      task[n].chainPriority =
        IF task[n].level = "Instances" THEN "Normal" ELSE "Low"

\* C23: raiseRetrieveFramesTasksPriorityForSeries(study, series, p) of
\* ctkDICOMTaskPool leaves every queued Series-level retrieve task of that
\* study and series queued at priority p; every other task keeps its place in
\* or out of the queue and its priority, and a task that is running or
\* finished is as it was.
C23_RaiseRequeuesMatchingSeriesTasks ==
  [][\A study \in RaiseStudyUIDs, series \in RaiseSeriesUIDs,
        prio \in RaisePriorities :
       (events' = events /\ RaisePriority(study, series, prio)) =>
         \A t \in TaskIds :
           IF /\ t \in Queued(queue) /\ t \in Range(Tasks)
              /\ task[t].kind = "retrieve" /\ task[t].level = "Series"
              /\ task[t].studyInstanceUID = study
              /\ task[t].seriesInstanceUID = series
           THEN /\ t \in Queued(queue')
                /\ QueuePriority(queue', t) = prio
                /\ task'[t].pc = "queued"
           ELSE /\ (t \in Queued(queue')) = (t \in Queued(queue))
                /\ t \in Queued(queue) =>
                     QueuePriority(queue', t) = QueuePriority(queue, t)
                /\ task'[t].pc = task[t].pc
                /\ task'[t].Running = task[t].Running
                /\ task'[t].Finished = task[t].Finished
  ]_vars

\* A Series-level retrieve has been taken once and is queued at High, behind
\* no task of another series.
C23_Witness ==
  \E t \in TaskIds :
    /\ task[t].kind = "retrieve" /\ task[t].level = "Series"
    /\ task[t].takes = 1 /\ Len(queue) >= 2
    /\ Head(queue) = [t |-> t, priority |-> "High"]

\* C24: after raiseRetrieveFramesTasksPriorityForSeries(study, series, High) of
\* ctkDICOMPoolManager every queued Instances-level retrieve task of that
\* study and series is queued at High, every other queued retrieve task at
\* Low, and no task was taken and started again more than once.
C24_PoolManagerRaisesMatchingLowersOthers ==
  [][\A study \in RaiseStudyUIDs, series \in RaiseSeriesUIDs :
       (events' = events /\ PoolManagerRaisePriority(study, series, "High")) =>
         \A t \in Queued(queue') :
           task'[t].kind = "retrieve" =>
             /\ QueuePriority(queue', t) =
                  IF /\ task'[t].level = "Instances"
                     /\ task'[t].studyInstanceUID = study
                     /\ task'[t].seriesInstanceUID = series
                  THEN "High" ELSE "Low"
             /\ task'[t].takes <= 1
  ]_vars

\* C25: a re-prioritisation changes no taskUID, adds and removes no registry
\* entry and no task object, and leaves no task in the pool queue twice.
C25_ReprioritisationKeepsIdentity ==
  [][(events' = events /\ Reprioritise) =>
       /\ Tasks' = Tasks
       /\ \A t \in TaskIds : /\ task'[t].TaskUID = task[t].TaskUID
                             /\ task'[t].kind = task[t].kind
       /\ \A i, j \in 1..Len(queue') : i # j => queue'[i].t # queue'[j].t
  ]_vars

\* lowerPriorityToAllTasks has taken a query task and queued it again at Low.
C25_Witness ==
  \E t \in TaskIds :
    /\ task[t].kind = "query" /\ task[t].takes = 1
    /\ t \in Queued(queue) /\ QueuePriority(queue, t) = "Low"
    /\ Tasks[task[t].TaskUID] = t
\* C26: after any sequence of setIsRunning / setIsFinished calls and run()
\* executions, no task is both Finished and Running.
C26_FinishedImpliesNotRunning ==
  \A t \in TaskIds : task[t].Finished => ~task[t].Running

\* C27: no task is removed from the registry and handed to deleteLater while a
\* worker is inside its run().
C27_DeleteOnlyNotRunning ==
  [][\A t \in TaskIds :
       (~task[t].deleted /\ task'[t].deleted) => task[t].pc \notin RunPCs]_vars

\* C28: in ctkDICOMPoolManager, the step in which taskCanceled handles a task
\* whose Stop flag the user set creates no task and arms no retry timer.
C28_PoolManagerStoppedTaskNotRetried ==
  [][\A t \in TaskIds :
       (task[t].handled = "" /\ task'[t].handled = "canceled" /\ task[t].Stop)
       => /\ timers' = timers
          /\ Allocated(task') = Allocated(task)]_vars

\* The responses of the list the loop has gone through so far.
Processed ==
  SubSeq(Query.received, 1, Len(Query.received) - Len(Query.responses))

\* The datasets of a list of responses, in order, without the NULL ones.
NonNull(rs) == SelectSeq(rs, LAMBDA dataset : dataset # <<>>)

\* ctkDICOMTaskResults::TaskType of the results of a driver function
TaskTypeOf(fn) == IF fn = "queryStudies" THEN "QueryStudies" ELSE "QuerySeries"

\* C29: in queryStudies and querySeries the result list holds one result per
\* response with a dataset, in the order of the responses, each of the
\* level's type and with the task UID and connection name of the call; a
\* response without dataset adds nothing.
C29_OneResultPerNonEmptyResponse ==
  Query.fn \in {"queryStudies", "querySeries"} =>
    LET datasets == NonNull(Processed)
    IN /\ Len(Query.TaskResults) = Len(datasets)
       /\ \A k \in 1..Len(datasets) :
            /\ Query.TaskResults[k].Dataset = datasets[k]
            /\ Query.TaskResults[k].TypeOfTask = TaskTypeOf(Query.fn)
            /\ Query.TaskResults[k].TaskUID = Query.taskUID
            /\ Query.TaskResults[k].ConnectionName = Query.ConnectionName

\* C29 witness: queryStudies has returned true after a list of two responses
\* with different datasets, a response without dataset between them.
C29_Witness ==
  /\ Query.fn = "queryStudies" /\ Query.pc = "returned" /\ Query.ret = "true"
  /\ Query.received = << <<"dataset", "D2">>, <<>>, <<"dataset", "D1">> >>
  /\ Len(Query.TaskResults) = 2

\* C30: a query task of any level whose C-FIND returned no response with a
\* dataset and whose finished signal taskFinished has handled has led to
\* progressTaskDetail(null), and nothing of it was handed to the Indexer.
C30_EmptyQueryYieldsNullProgress ==
  \A t \in TaskIds :
    (task[t].kind = "query" /\ task[t].handled = "finished"
       /\ task[t].nonEmpty = 0)
    => /\ task[t].nullProgress >= 1
       /\ ~task[t].indexed
       /\ task[t].received = {}

\* C31: no two servers of d->Servers have the same connectionName.
C31_ConnectionNameIsUniqueKey ==
  \A i, j \in 1..Len(Servers) :
    ServerObjects[Servers[i]].connectionName
      = ServerObjects[Servers[j]].connectionName => i = j

\* InstanceNumber of a database row, 0 when the tag is missing.
NumberOf(row) == toInt(row.instanceNumber)

\* The instance at index n \div 2 (from 0) of the rows sorted by InstanceNumber
\* ascending, rows of equal InstanceNumber in database order.
CentralBySort(rows) ==
  LET before(i) == {j \in 1..Len(rows) :
                      \/ NumberOf(rows[j]) < NumberOf(rows[i])
                      \/ (NumberOf(rows[j]) = NumberOf(rows[i]) /\ j < i)}
      i == CHOOSE k \in 1..Len(rows) : Cardinality(before(k)) = Len(rows) \div 2
  IN rows[i].uid

\* C32: what getDICOMCenterFrameFromInstances returned for a series of n >= 1
\* instances is the instance at index floor(n/2) of the instances sorted by
\* InstanceNumber, ties in database order.
C32_CentralFrameIsMiddleOfSortedInstances ==
  (SeriesItem # NoSeriesItem /\ SeriesItem.centerFrame # "none")
  => SeriesItem.centerFrame = CentralBySort(SeriesItem.rows)

\* C33: a createThumbnail call schedules the retrieveSOPInstance of the central
\* frame only when the file of that instance is not local, and a retrieveSeries
\* only when the series has more than one frame and an instance is on the
\* server.
C33_RetrieveOnlyWhenCentralFrameRemote ==
  SeriesItem # NoSeriesItem =>
    /\ SeriesItem.last.sop => SeriesItem.last.fileOnServer
    /\ SeriesItem.last.series =>
         (SeriesItem.last.frames > 1 /\ SeriesItem.last.onServer > 0)

\* C34: once queryStudies has built the request from a Modalities filter of
\* two or more modalities, ModalitiesInStudy is the modalities joined with
\* backslashes.
C34_ModalitiesJoinedWithBackslash ==
  (/\ Request # NoRequest
   /\ Request.built
   /\ "Modalities" \in DOMAIN Request.Filters
   /\ Len(Request.Filters["Modalities"].value) >= 2)
  => Request.Query["ModalitiesInStudy"]
       = chop(appendModalities(<<>>, Request.Filters["Modalities"].value))

\* C35: the results of a task are handed to the Indexer only by taskFinished
\* handling the finished signal of a task whose Stop flag is clear at that
\* moment; a task that emitted canceled, or that was stopped before its
\* finished signal is handled, never has its results handed to the Indexer.
C35_IndexedOnlyFinishedAndNotStopped ==
  [][\A t \in TaskIds :
       (~task[t].indexed /\ task'[t].indexed) =>
         /\ task[t].emitted = <<"started", "finished">>
         /\ task[t].handled = "" /\ task'[t].handled = "finished"
         /\ ~task[t].Stop]_vars

\* C35 witness: taskFinished has handed the results of a finished task to the
\* Indexer.
C35_Witness ==
  \E t \in TaskIds :
    /\ task[t].indexed /\ task[t].handled = "finished"
    /\ task[t].emitted = <<"started", "finished">>

\* C36: the driver of a task is cancelled only by setStop(true): a step that
\* sets the Canceled flag of a task's driver leaves the task with Stop set.
C36_DriverCanceledOnlyBySetStopTrue ==
  [][\A t \in TaskIds :
       (task[t].pc # "none" /\ ~task[t].Canceled /\ task'[t].Canceled)
       => task'[t].Stop]_vars

\* progressTaskDetail has been emitted for task t, or its results are with
\* the Indexer, which emits it: null by taskFinished, a result by the CMOVE
\* branch of taskFinished, or the results handed to the Indexer.
Progressed(t) ==
  \/ task[t].nullProgress > 0
  \/ task[t].indexed
  \/ /\ task[t].handled = "finished" /\ task[t].kind = "retrieve"
     /\ IsMoveRetrieve(task[t]) /\ task[t].results > 0

\* C37: once an operation is scheduled and nobody stops it, progressTaskDetail
\* is eventually emitted for one of its tasks (a result or null).
C37_ScheduledOperationEventuallyProgresses ==
  (\E t \in TaskIds : task[t].pc # "none") ~> (\E t \in TaskIds : Progressed(t))

\* The number of proxies a retrieve on server s can be chained through: s is
\* a C-MOVE server with an enabled proxy, and so on from the proxy.
RECURSIVE ProxyDepth(_)
ProxyDepth(s) ==
  LET proxy == ServerObjects[s].proxyServer
  IN IF /\ ServerObjects[s].retrieveProtocol = "CMOVE"
        /\ proxy # ""
        /\ ServerObjects[proxy].queryRetrieveEnabled
     THEN 1 + ProxyDepth(proxy)
     ELSE 0

\* The chained tasks among t and the tasks t descends from, and the task the
\* call created.
RECURSIVE ChainCount(_)
ChainCount(t) ==
  (IF task[t].origin = "chain" THEN 1 ELSE 0)
    + (IF task[t].parent = 0 THEN 0 ELSE ChainCount(task[t].parent))
RECURSIVE CalledTask(_)
CalledTask(t) == IF task[t].parent = 0 THEN t ELSE CalledTask(task[t].parent)

C39_NotStartedStopSparesTasksInRun ==
  [][\A t \in TaskIds :
       (task[t].pc \in RunPCs /\ ~task[t].Stop) => ~task'[t].Stop]_vars

\* A worker has entered run() of the task object, now or before.
HasEnteredRun(r) == r.pc \in RunPCs \cup {"returned"}

\* C40: a task object whose run() was entered is never handed to the thread
\* pool again, a queued task is neither Running nor Finished, and a retry or
\* chained task is an object that did not exist before, other than its parent.
C40_TaskObjectRunsAtMostOnce ==
  [][\A t \in TaskIds :
       /\ HasEnteredRun(task[t])
            => /\ task'[t].pc \notin {"queued", "assigned"}
               /\ t \notin Queued(queue')
       /\ t \in Queued(queue') => ~task'[t].Running /\ ~task'[t].Finished
       /\ (task[t].origin = "" /\ task'[t].origin \in {"retry", "chain"})
            => /\ task[t].kind = "none"
               /\ task'[t].parent # t
               /\ task[task'[t].parent].kind # "none"]_vars

\* C40 witness: a chained or retry task has run to its end while another task
\* waited in the queue after being taken and started again.
C40_Witness ==
  \E t, u \in TaskIds :
    /\ task[t].origin \in {"retry", "chain"} /\ task[t].pc = "returned"
    /\ u \in Queued(queue) /\ task[u].takes > 0

====
